---- MODULE Spec2Model ----
(***************************************************************************)
(* Model of the math_solver client: the streaming response consumer of     *)
(* services/mathSolverApi.ts (XHR, fetch-reader and text-fallback          *)
(* transports) and the chat screen of app/(tabs)/index.tsx that owns the   *)
(* assistant message the consumer's callbacks update.                      *)
(*                                                                         *)
(* Text is a sequence of tokens.  A token is a record of three strings, so *)
(* that every text of the model is comparable with every other.  A data    *)
(* line of the SSE feed is  D1(k,v) D2(k,v) : the two halves of the text    *)
(* 'data: {"k": "v"}', the first of which starts with the prefix 'data: '; *)
(* a delivery boundary may fall between any two tokens.                    *)
(***************************************************************************)
EXTENDS Integers, Sequences, FiniteSets, TLC

\* ------------------------------------------------------------- bounds ----
MaxLines == 3
MaxTicks == 1

\* -------------------------------------------------- program constants ----
TIMEOUT == 95000

\* -------------------------------------------------------------- text -----
NL == [t |-> "nl", k |-> "", v |-> ""]
CR == [t |-> "ws", k |-> "", v |-> "cr"]
D1(k, v) == [t |-> "data+j1", k |-> k, v |-> v]
D2(k, v) == [t |-> "j2", k |-> k, v |-> v]
Lit(s) == [t |-> "lit", k |-> "", v |-> s]

\* index of the first token of s equal to tok, 0 when there is none
IndexOf(s, tok) ==
  IF \E i \in 1..Len(s) : s[i] = tok
  THEN CHOOSE i \in 1..Len(s) : s[i] = tok /\ \A j \in 1..(i-1) : s[j] # tok
  ELSE 0

\* String.prototype.split('\n')
RECURSIVE Split(_)
Split(s) ==
  LET i == IndexOf(s, NL)
  IN IF i = 0 THEN <<s>>
     ELSE <<SubSeq(s, 1, i-1)>> \o Split(SubSeq(s, i+1, Len(s)))

\* String.prototype.trim()
RECURSIVE Trim(_)
Trim(s) ==
  IF s = <<>> THEN s
  ELSE IF s[1].t = "ws" THEN Trim(Tail(s))
  ELSE IF s[Len(s)].t = "ws" THEN Trim(SubSeq(s, 1, Len(s)-1))
  ELSE s

\* trimmed.startsWith('data: ')
StartsWithData(s) == Len(s) >= 1 /\ s[1].t = "data+j1"

\* trimmed.substring(6)
Substring6(s) ==
  IF s = <<>> THEN s
  ELSE IF s[1].t = "data+j1" THEN <<[s[1] EXCEPT !.t = "j1"]>> \o Tail(s)
  ELSE Tail(s)

\* JSON.parse: the text of one whole object parses to that object; anything
\* else (half an object, two objects, the empty text, broken JSON) throws.
JSONparse(s) ==
  IF Len(s) = 2 /\ s[1].t = "j1" /\ s[2].t = "j2"
     /\ s[1].k = s[2].k /\ s[1].v = s[2].v /\ s[1].k # "bad"
  THEN [ok |-> TRUE, key |-> s[1].k, val |-> <<Lit(s[1].v)>>]
  ELSE [ok |-> FALSE, key |-> "", val |-> <<>>]

\* ----------------------------------------------------- server output ----
\* The lines a backend can write: two chunk events (the second one on a
\* CRLF-terminated line), a full_response event, an error event, and a data
\* line whose payload is not valid JSON.
ChunkA == <<D1("chunk", "a"), D2("chunk", "a")>>
ChunkB == <<D1("chunk", "b"), D2("chunk", "b"), CR>>
FullLine == <<D1("full_response", "F"), D2("full_response", "F")>>
ErrorLine == <<D1("error", "E"), D2("error", "E")>>
BadLine == <<D1("bad", "x"), D2("bad", "x")>>
LineKinds == {ChunkA, ChunkB, FullLine, ErrorLine, BadLine}

RECURSIVE Join(_, _)
Join(ls, terminated) ==
  IF ls = <<>> THEN <<>>
  ELSE IF Len(ls) = 1 THEN (IF terminated THEN ls[1] \o <<NL>> ELSE ls[1])
  ELSE ls[1] \o <<NL>> \o Join(Tail(ls), terminated)

LineSeqs == UNION {[1..n -> LineKinds] : n \in 0..MaxLines}
\* every line ends with a newline, except possibly the last one
Bodies == {Join(ls, TRUE) : ls \in LineSeqs} \cup {Join(ls, FALSE) : ls \in LineSeqs}
ErrBodies == {<<>>, <<Lit("Internal Server Error")>>}

NoResp == [status |-> 0, sse |-> FALSE, hasBody |-> FALSE, body |-> <<>>]
\* what the server answers: a 2xx event stream, a non-2xx status with an
\* error text, or nothing at all (status 0: the network fails before any
\* byte arrives).  Whether response.body exists and whether the content
\* type is text/event-stream is only looked at by the fetch path.
Responses(os) ==
  IF os = "web"
  THEN [status : {200}, sse : {TRUE}, hasBody : BOOLEAN, body : Bodies]
       \cup [status : {200}, sse : {FALSE}, hasBody : {FALSE}, body : {<<>>}]
       \cup [status : {500}, sse : {FALSE}, hasBody : {TRUE}, body : ErrBodies]
       \cup [status : {0}, sse : {FALSE}, hasBody : {FALSE}, body : {<<>>}]
  ELSE [status : {200}, sse : {TRUE}, hasBody : {TRUE}, body : Bodies]
       \cup [status : {500}, sse : {FALSE}, hasBody : {TRUE}, body : ErrBodies]
       \cup [status : {0}, sse : {FALSE}, hasBody : {FALSE}, body : {<<>>}]

\* ------------------------------------------------------- chat screen -----
ErrorPrefix == <<Lit("Error: ")>>
AnalyzingText == <<Lit("AI is analyzing your math problem...")>>
ThinkingText == <<Lit("AI is thinking...")>>
ImageText == <<Lit("I have a math problem to solve!")>>
InputText == <<Lit("2x + 5 = 13")>>

UserId(ts) == [p |-> "user", ts |-> ts]
TypingId(ts) == [p |-> "typing", ts |-> ts]
NoId == [p |-> "", ts |-> 0]

\* the onChunk closure of handleImageSelected / handleSendMessage
OnChunkUI(msgs, id, chunk) ==
  [i \in DOMAIN msgs |->
     IF msgs[i].id = id
     THEN [msgs[i] EXCEPT !.content = @ \o chunk, !.isStreaming = TRUE]
     ELSE msgs[i]]

stopStreamingFlush(msgs, typingId, finalText) ==
  [i \in DOMAIN msgs |->
     IF msgs[i].id = typingId
     THEN [msgs[i] EXCEPT !.content = finalText, !.isStreaming = FALSE]
     ELSE msgs[i]]

\* the catch block of handleImageSelected / handleSendMessage
HandlerCatch(msgs, id, message) ==
  [i \in DOMAIN msgs |->
     IF msgs[i].id = id
     THEN [msgs[i] EXCEPT !.content = ErrorPrefix \o message, !.isStreaming = FALSE]
     ELSE msgs[i]]

\* ------------------------------------------------ callbacks and loops ----
\* The state a consumer loop threads through its iterations: the callbacks
\* invoked so far (with the call site), the accumulated response, the
\* screen's messages, and whether the loop has returned.
Call(cb, arg, site) == [cb |-> cb, arg |-> arg, site |-> site]

onChunk(st, id, chunk, site) ==
  [st EXCEPT !.log = Append(@, Call("onChunk", chunk, site)),
             !.msgs = OnChunkUI(@, id, chunk)]
onComplete(st, id, full, site) ==
  [st EXCEPT !.log = Append(@, Call("onComplete", full, site)),
             !.msgs = stopStreamingFlush(@, id, full)]
onError(st, id, err, site) ==
  [st EXCEPT !.log = Append(@, Call("onError", err, site)),
             !.msgs = stopStreamingFlush(@, id, ErrorPrefix \o err)]

\* the event handler handed to ssePostXHR (the same in both streaming calls)
OnEvent(evt, st, id) ==
  IF evt.key = "chunk" THEN onChunk(st, id, evt.val, "event")
  ELSE IF evt.key = "full_response" THEN onComplete(st, id, evt.val, "event")
  ELSE IF evt.key = "error" THEN onError(st, id, evt.val, "event")
  ELSE st

\* the body of the try block of the fetch paths: dispatch, and return from
\* the streaming call on full_response and on error
DispatchAndReturn(evt, st, id) ==
  IF evt.key = "chunk"
  THEN onChunk([st EXCEPT !.acc = @ \o evt.val], id, evt.val, "event")
  ELSE IF evt.key = "full_response"
  THEN [onComplete(st, id, evt.val, "event") EXCEPT !.ret = TRUE]
  ELSE IF evt.key = "error"
  THEN [onError(st, id, evt.val, "event") EXCEPT !.ret = TRUE]
  ELSE st

\* the loop with a catch block that reports the parse failure and returns
RECURSIVE ConsumeLinesAbortOnMalformed(_, _, _)
ConsumeLinesAbortOnMalformed(lines, st, id) ==
  IF lines = <<>> \/ st.ret THEN st
  ELSE LET trimmedLine == Trim(Head(lines))
           evt == JSONparse(Substring6(trimmedLine))
       IN IF StartsWithData(trimmedLine) /\ evt.ok
          THEN ConsumeLinesAbortOnMalformed(Tail(lines), DispatchAndReturn(evt, st, id), id)
          ELSE IF StartsWithData(trimmedLine)
          THEN [onError(st, id, <<Lit("Failed to parse stream event")>>, "catch")
                  EXCEPT !.ret = TRUE]
          ELSE ConsumeLinesAbortOnMalformed(Tail(lines), st, id)

\* for (const line of lines) of the reader loop and of the text fallback
RECURSIVE ConsumeLines(_, _, _)
ConsumeLines(lines, st, id) ==
  IF lines = <<>> \/ st.ret THEN st
  ELSE LET trimmedLine == Trim(Head(lines))
           evt == JSONparse(Substring6(trimmedLine))
       IN IF StartsWithData(trimmedLine) /\ evt.ok
          THEN ConsumeLines(Tail(lines), DispatchAndReturn(evt, st, id), id)
          ELSE ConsumeLines(Tail(lines), st, id)

\* for (const line of lines) of processDelta
RECURSIVE DeltaLines(_, _, _)
DeltaLines(lines, st, id) ==
  IF lines = <<>> THEN st
  ELSE LET trimmed == Trim(Head(lines))
           evt == JSONparse(Substring6(trimmed))
       IN IF StartsWithData(trimmed) /\ evt.ok
          THEN DeltaLines(Tail(lines), OnEvent(evt, st, id), id)
          ELSE DeltaLines(Tail(lines), st, id)

\* -------------------------------------------------------------- state ----
VARIABLES
  platform,   \* Platform.OS: "web" or "native"
  messages,   \* the chat screen's messages state
  pc,         \* where the streaming call of the request stands
  req,        \* the request: which call, the id of its typing message, start time
  resp,       \* what the server answers to it
  received,   \* how many tokens of the body the transport has handed over
  buffer,     \* reader loop: the incomplete last line
  accumulated,\* reader loop: accumulatedResponse / accumulated
  lastIndex,  \* ssePostXHR: how much of responseText processDelta has seen
  log,        \* the callbacks invoked so far, in order
  now         \* the clock, in ms

\* the variables of the single streaming request
streamVars == <<platform, messages, pc, req, resp, received, buffer, accumulated,
                lastIndex, log, now>>
\* the transport of the single streaming request
transportVars == <<platform, pc, req, resp, received, buffer, accumulated,
                   lastIndex, log>>

VARIABLES
  requests,   \* chat screen with several requests: the closures of each call
  caller,     \* ... and the request whose closure ran in the last step
  contentProp,\* ChatMessageRenderer: the content prop, a sequence of characters
  rendered,   \* ... which parser has produced parts ("no" before rendering)
  parts,      \* ... the segments the parser returned
  backendResponse, \* parseBackendResponse: its argument
  gptResponse,     \* ... what extractJsonFromGptResponse returned
  mappedResult,    \* ... what it returned, or that it threw
  solveResponse,   \* POST /solve: what the network and the server answer
  solveOutcome     \* solveMathFromImage / solveMathFromFile: how the call ended

screenVars == <<requests, caller>>
rendererVars == <<contentProp, rendered, parts>>
extractorVars == <<backendResponse, gptResponse, mappedResult>>
solveVars == <<solveResponse, solveOutcome>>

VARIABLES
  revision,   \* callServer / tryMultipleUrls: which copy of the service runs
  baseUrl,    \* ... its baseUrl field
  workingUrl, \* ... its workingUrl field (NoUrl for null)
  reachable,  \* ... the URLs at which a server answers
  attempts,   \* ... the requests the last public call issued, in order
  callResult  \* ... how the last public call ended

callVars == <<revision, baseUrl, workingUrl, reachable, attempts, callResult>>

VARIABLES
  accessToken,   \* the service's accessToken field (NoToken for null)
  isInitialized, \* ... its isInitialized field
  storedToken,   \* AsyncStorage: the item access_token (NoToken when absent)
  initRead,      \* the constructor's initializeFromStorage: where its getItem is
  lastCall,      \* the last of setAuthToken / logout / forceReauth that ran
  authChecked,   \* what isAuthenticated returned, if called since lastCall
  sent           \* the last request built since lastCall, with its header

authVars == <<accessToken, isInitialized, storedToken, initRead, lastCall, authChecked, sent>>

VARIABLES
  webViewHeight, \* LatexWebView: the height state of each math segment
  lastReport     \* ... the last message handled, and the segment it came from

webViewVars == <<webViewHeight, lastReport>>

VARIABLES
  chatStorage, \* AsyncStorage: the item math_solver_chat_history
  lastSaved,   \* ChatHistoryService: the list of the save that wrote the item
  loaded       \* ... what loadChatHistory returned since then

historyVars == <<chatStorage, lastSaved, loaded>>
\* the parts of the program outside the chat pipeline
utilityVars == <<callVars, authVars, webViewVars, historyVars>>

\* what the single streaming request leaves alone
restVars == <<screenVars, rendererVars, extractorVars, solveVars, utilityVars>>
\* what the screen with several requests leaves alone (it has messages, now)
outsideScreen == <<transportVars, rendererVars, extractorVars, solveVars, utilityVars>>
\* what the renderer leaves alone
outsideRenderer == <<streamVars, screenVars, extractorVars, solveVars, utilityVars>>
\* what the structured extractor leaves alone
outsideExtractor == <<streamVars, screenVars, rendererVars, solveVars, utilityVars>>
\* what the non-streaming solve calls leave alone
outsideSolve == <<streamVars, screenVars, rendererVars, extractorVars, utilityVars>>

\* the chat pipeline: transport, screen, renderer, extractor, solve calls
pipelineVars == <<streamVars, screenVars, rendererVars, extractorVars, solveVars>>
\* what the public calls' URL handling leaves alone
outsideCall == <<pipelineVars, authVars, webViewVars, historyVars>>
\* what the token handling leaves alone
outsideAuth == <<pipelineVars, callVars, webViewVars, historyVars>>
\* what the math segments' height handling leaves alone
outsideWebView == <<pipelineVars, callVars, authVars, historyVars>>
\* what the chat history leaves alone
outsideHistory == <<pipelineVars, callVars, authVars, webViewVars>>

vars == <<streamVars, restVars>>

NoReq == [api |-> "", id |-> NoId, startedAt |-> 0]
InFlight == pc \in {"fetch", "errtext", "fbtext", "reading", "xhr"}
Settled == pc \in {"resolved", "rejected"}

\* nothing else of the program runs
ScreenIdle ==
  /\ requests = <<>>
  /\ caller = 0

RendererIdle ==
  /\ contentProp = <<>>
  /\ rendered = "no"
  /\ parts = <<>>

ExtractorIdle ==
  /\ backendResponse = [has |-> FALSE, chatgpt_response |-> <<>>, math_equation |-> "",
                        status |-> ""]
  /\ gptResponse = <<>>
  /\ mappedResult = <<>>

\* no answer to POST /solve, and no call made
NoSolveResponse ==
  [net |-> "", status |-> 0, bodyIsJson |-> FALSE, detail |-> "",
   body |-> [has |-> FALSE, chatgpt_response |-> <<>>, math_equation |-> "",
             status |-> ""]]
SolveIdle ==
  /\ solveResponse = NoSolveResponse
  /\ solveOutcome = <<>>

NoUrl == ""
CallIdle ==
  /\ revision = ""
  /\ baseUrl = NoUrl
  /\ workingUrl = NoUrl
  /\ reachable = {}
  /\ attempts = <<>>
  /\ callResult = <<>>

NoToken == ""
AuthIdle ==
  /\ accessToken = NoToken
  /\ isInitialized = TRUE
  /\ storedToken = NoToken
  /\ initRead = [state |-> "done", value |-> NoToken]
  /\ lastCall = <<>>
  /\ authChecked = <<>>
  /\ sent = <<>>

WebViewIdle ==
  /\ webViewHeight = <<>>
  /\ lastReport = <<>>

NoItem == [has |-> FALSE, value |-> <<>>]
HistoryIdle ==
  /\ chatStorage = NoItem
  /\ lastSaved = <<>>
  /\ loaded = <<>>

UtilityIdle ==
  /\ CallIdle
  /\ AuthIdle
  /\ WebViewIdle
  /\ HistoryIdle

RestIdle ==
  /\ UtilityIdle
  /\ ScreenIdle
  /\ RendererIdle
  /\ ExtractorIdle
  /\ SolveIdle

Init ==
  /\ platform \in {"web", "native"}
  /\ messages = <<>>
  /\ pc = "idle"
  /\ req = NoReq
  /\ resp = NoResp
  /\ received = 0
  /\ buffer = <<>>
  /\ accumulated = <<>>
  /\ lastIndex = 0
  /\ log = <<>>
  /\ now = 0
  /\ RestIdle

Message(id, type, content, isStreaming) ==
  [id |-> id, type |-> type, content |-> content, isStreaming |-> isStreaming]

\* the loop state at the start of a step, and its write-back
St == [log |-> log, acc |-> accumulated, msgs |-> messages, ret |-> FALSE]

\* handleImageSelected up to the call of solveMathFromImageStream, which
\* runs up to its first await (the XHR is sent, or fetch is called)
handleImageSelected(r) ==
  /\ pc = "idle"
  /\ messages' = messages \o <<Message(UserId(now), "user", ImageText, FALSE),
                               Message(TypingId(now), "assistant", AnalyzingText, TRUE)>>
  /\ req' = [api |-> "solve", id |-> TypingId(now), startedAt |-> now]
  /\ resp' = r
  /\ pc' = IF platform # "web" THEN "xhr" ELSE "fetch"
  /\ UNCHANGED <<platform, received, buffer, accumulated, lastIndex, log, now>>
  /\ UNCHANGED restVars

\* handleSendMessage up to the call of sendChatMessageStream
handleSendMessage(r) ==
  /\ pc = "idle"
  /\ Trim(InputText) # <<>>
  /\ messages' = messages \o <<Message(UserId(now), "user", InputText, FALSE),
                               Message(TypingId(now), "assistant", ThinkingText, TRUE)>>
  /\ req' = [api |-> "chat", id |-> TypingId(now), startedAt |-> now]
  /\ resp' = r
  /\ pc' = IF platform # "web" THEN "xhr" ELSE "fetch"
  /\ UNCHANGED <<platform, received, buffer, accumulated, lastIndex, log, now>>
  /\ UNCHANGED restVars

\* catch (error) of the streaming call: onError(error.message), rethrow;
\* callServer rethrows; the handler's catch replaces the typing message
Throw(st, message) ==
  LET st2 == onError(st, req.id, message, "catch")
  IN /\ log' = st2.log
     /\ messages' = HandlerCatch(st2.msgs, req.id, message)
     /\ pc' = "rejected"

StatusText(n) == IF n = 200 THEN "200" ELSE IF n = 500 THEN "500" ELSE "0"
IsOk(n) == n >= 200 /\ n < 300

\* the message without the body text
SolveFailedMessageNoBody(status, errorText) ==
  <<Lit("Streaming request failed: "), Lit(StatusText(status))>>

\* `Streaming request failed: ${response.status} - ${errorText}`
SolveFailedMessage(status, errorText) ==
  <<Lit("Streaming request failed: "), Lit(StatusText(status)), Lit(" - ")>> \o errorText
\* `Streaming chat failed: ${response.status} - ${errorText}`
ChatFailedMessage(status, errorText) ==
  <<Lit("Streaming chat failed: "), Lit(StatusText(status)), Lit(" - ")>> \o errorText
\* `SSE request failed: ${xhr.status} - ${xhr.responseText}`
SseFailedMessage(status, responseText) ==
  <<Lit("SSE request failed: "), Lit(StatusText(status)), Lit(" - ")>> \o responseText
NoBodyMessage == <<Lit("No response body for streaming")>>
NetworkFailedMessage == <<Lit("Network request failed")>>
XhrNetworkErrorMessage == <<Lit("Network error during SSE request")>>

\* ------------------------------------------------- fetch path (web) ------
\* await fetch(...) rejects: the network failed before any byte arrived
FetchRejects ==
  /\ pc = "fetch"
  /\ resp.status = 0
  /\ Throw(St, NetworkFailedMessage)
  /\ UNCHANGED <<platform, req, resp, received, buffer, accumulated, lastIndex, now>>
  /\ UNCHANGED restVars

\* await fetch(...) resolves: the status and body checks that follow it
FetchResolves ==
  /\ pc = "fetch"
  /\ resp.status # 0
  /\ IF ~IsOk(resp.status)
     THEN pc' = "errtext" /\ UNCHANGED <<log, messages>>
     ELSE IF req.api = "solve" /\ ~resp.sse /\ ~resp.hasBody
     THEN Throw(St, NoBodyMessage)
     ELSE /\ pc' = IF resp.hasBody THEN "reading" ELSE "fbtext"
          /\ UNCHANGED <<log, messages>>
  /\ UNCHANGED <<platform, req, resp, received, buffer, accumulated, lastIndex, now>>
  /\ UNCHANGED restVars

\* await response.text() of the !response.ok branch, and the throw after it
ReadErrorText ==
  /\ pc = "errtext"
  /\ Throw(St, IF req.api = "solve"
               THEN SolveFailedMessage(resp.status, resp.body)
               ELSE ChatFailedMessage(resp.status, resp.body))
  /\ received' = Len(resp.body)
  /\ UNCHANGED <<platform, req, resp, buffer, accumulated, lastIndex, now>>
  /\ UNCHANGED restVars

\* the text() fallback: the whole body at once
FallbackText ==
  /\ pc = "fbtext"
  /\ LET lines == Split(resp.body)
         st == ConsumeLines(lines, St, req.id)
     IN /\ log' = st.log
        /\ messages' = st.msgs
  /\ received' = Len(resp.body)
  /\ pc' = "resolved"
  /\ UNCHANGED <<platform, req, resp, buffer, accumulated, lastIndex, now>>
  /\ UNCHANGED restVars

\* one iteration of while (true) { await reader.read() ... } with done false:
\* the next k tokens of the body arrive
ReaderRead(k) ==
  /\ pc = "reading"
  /\ received + k <= Len(resp.body)
  /\ LET value == SubSeq(resp.body, received + 1, received + k)
         split == Split(buffer \o value)
         lines == SubSeq(split, 1, Len(split) - 1)
         st == ConsumeLines(lines, St, req.id)
     IN /\ buffer' = split[Len(split)]
        /\ log' = st.log
        /\ messages' = st.msgs
        /\ accumulated' = st.acc
        /\ pc' = IF st.ret THEN "resolved" ELSE "reading"
  /\ received' = received + k
  /\ UNCHANGED <<platform, req, resp, lastIndex, now>>
  /\ UNCHANGED restVars

\* reader.read() answers done: the loop breaks.  Only sendChatMessageStream
\* has a statement after the loop.
ReaderDone ==
  /\ pc = "reading"
  /\ received = Len(resp.body)
  /\ LET st == IF req.api = "chat" /\ accumulated # <<>>
               THEN onComplete(St, req.id, accumulated, "eos")
               ELSE St
     IN /\ log' = st.log
        /\ messages' = st.msgs
  /\ pc' = "resolved"
  /\ UNCHANGED <<platform, req, resp, received, buffer, accumulated, lastIndex, now>>
  /\ UNCHANGED restVars

\* ------------------------------------------------ XHR path (native) ------
\* processDelta, given the responseText at the time of the event
processDelta(text, st) ==
  IF Len(text) <= lastIndex THEN st
  ELSE DeltaLines(Split(SubSeq(text, lastIndex + 1, Len(text))), st, req.id)

\* onreadystatechange with readyState 3, or onprogress, after k more tokens
\* have arrived: both handlers run processDelta, and the one that comes
\* second for the same data finds nothing new
XhrLoading(k) ==
  /\ pc = "xhr"
  /\ received + k <= Len(resp.body)
  /\ LET text == SubSeq(resp.body, 1, received + k)
         st == processDelta(text, St)
     IN /\ log' = st.log
        /\ messages' = st.msgs
        /\ lastIndex' = Len(text)
  /\ received' = received + k
  /\ UNCHANGED <<platform, pc, req, resp, buffer, accumulated, now>>
  /\ UNCHANGED restVars

\* onreadystatechange with readyState 4: the rest of the body has arrived;
\* resolve, or onError and reject.  After a network failure (status 0) the
\* error event follows the readystatechange event, and its handler calls
\* onError once more.  Then the awaiting streaming call continues.
XhrDone ==
  /\ pc = "xhr"
  /\ LET text == resp.body
         st == processDelta(text, St)
         err == SseFailedMessage(resp.status, text)
     IN /\ lastIndex' = Len(text)
        /\ IF IsOk(resp.status)
           THEN /\ log' = st.log
                /\ messages' = st.msgs
                /\ pc' = "resolved"
           ELSE LET st1 == onError(st, req.id, err, "xhr_status")
                    st2 == IF resp.status = 0
                           THEN onError(st1, req.id, XhrNetworkErrorMessage, "xhr_onerror")
                           ELSE st1
                IN Throw(st2, err)
  /\ received' = Len(resp.body)
  /\ UNCHANGED <<platform, req, resp, buffer, accumulated, now>>
  /\ UNCHANGED restVars

\* ------------------------------------------------------------- clock -----
Tick ==
  /\ InFlight
  /\ now - req.startedAt < MaxTicks * TIMEOUT
  /\ now' = now + TIMEOUT
  /\ UNCHANGED <<platform, messages, pc, req, resp, received, buffer, accumulated,
                 lastIndex, log>>
  /\ UNCHANGED restVars

Next ==
  \/ \E r \in Responses(platform) : handleImageSelected(r)
  \/ \E r \in Responses(platform) : handleSendMessage(r)
  \/ FetchRejects
  \/ FetchResolves
  \/ ReadErrorText
  \/ FallbackText
  \/ \E k \in 1..(MaxLines * 4) : ReaderRead(k)
  \/ ReaderDone
  \/ \E k \in 1..(MaxLines * 4) : XhrLoading(k)
  \/ XhrDone

Spec == Init /\ [][Next]_vars

\* the same program with the clock running while a request is in flight
NextClock == Next \/ Tick
SpecClock == Init /\ [][NextClock]_vars

\* ====================================================== properties =======
\* What the callbacks log and the body say, read off the tokens directly.
IsTerminal(c) == c.cb \in {"onComplete", "onError"}
IsTerminalEvent(c) == IsTerminal(c) /\ c.site = "event"
Args(calls, cb) ==
  LET sel == SelectSeq(calls, LAMBDA c : c.cb = cb)
  IN [i \in 1..Len(sel) |-> sel[i].arg]
CbArg(calls) == [i \in 1..Len(calls) |-> [cb |-> calls[i].cb, arg |-> calls[i].arg]]

RECURSIVE Concat(_)
Concat(texts) == IF texts = <<>> THEN <<>> ELSE Head(texts) \o Concat(Tail(texts))

\* the calls up to and including the first terminal one
RECURSIVE UpToTerminal(_)
UpToTerminal(calls) ==
  IF calls = <<>> THEN <<>>
  ELSE IF IsTerminal(Head(calls)) THEN <<Head(calls)>>
  ELSE <<Head(calls)>> \o UpToTerminal(Tail(calls))

Contains(text, sub) ==
  \E i \in 1..(Len(text) + 1) :
    i + Len(sub) - 1 <= Len(text) /\ SubSeq(text, i, i + Len(sub) - 1) = sub

\* a line as the server wrote it, without its surrounding whitespace
RECURSIVE NoWs(_)
NoWs(line) ==
  IF line = <<>> THEN <<>>
  ELSE IF Head(line).t = "ws" THEN NoWs(Tail(line))
  ELSE <<Head(line)>> \o NoWs(Tail(line))
IsDataLine(line) == NoWs(line) # <<>> /\ NoWs(line)[1].t = "data+j1"
\* the line carries one whole, valid event
IsEventLine(line) ==
  LET l == NoWs(line)
  IN /\ Len(l) = 2
     /\ l[1].t = "data+j1" /\ l[2].t = "j2"
     /\ l[1].k = l[2].k /\ l[1].v = l[2].v
     /\ l[1].k \in {"chunk", "full_response", "error"}
IsMalformedLine(line) == IsDataLine(line) /\ ~IsEventLine(line)
CallOfLine(line) ==
  LET l == NoWs(line)
  IN [cb |-> IF l[1].k = "chunk" THEN "onChunk"
             ELSE IF l[1].k = "full_response" THEN "onComplete" ELSE "onError",
      arg |-> <<Lit(l[1].v)>>]
\* the callbacks the event lines among `lines` stand for, in order
ExpectedCalls(lines) ==
  LET ev == SelectSeq(lines, IsEventLine)
  IN [i \in 1..Len(ev) |-> CallOfLine(ev[i])]

\* the newline-terminated lines of a body, and all its lines
TerminatedLines(body) == LET sp == Split(body) IN SubSeq(sp, 1, Len(sp) - 1)
AllLines(body) ==
  LET sp == Split(body)
  IN IF sp[Len(sp)] = <<>> THEN SubSeq(sp, 1, Len(sp) - 1) ELSE sp

TypingMessages == SelectSeq(messages, LAMBDA m : m.id = req.id)

\* ---------------------------------------------------------------- C1 -----
\* C1: once a full_response or error event has been dispatched, no further
\* onChunk, onComplete or onError callback is invoked for the request: the
\* callback of a terminal event is the last entry of the callbacks log.
C1_NoCallbackAfterTerminalEvent ==
  \A i \in 1..Len(log) : IsTerminalEvent(log[i]) => i = Len(log)

\* ---------------------------------------------------------------- C2 -----
\* C2: when the streaming call has returned at the end of the stream after
\* at least one chunk and without a full_response or error event, onComplete
\* has been called exactly once, with the concatenation of the chunks.
C2_EndOfStreamCompletes ==
  (/\ pc = "resolved"
   /\ Args(log, "onChunk") # <<>>
   /\ \A i \in 1..Len(log) : ~IsTerminalEvent(log[i]))
  => Args(log, "onComplete") = <<Concat(Args(log, "onChunk"))>>

\* ---------------------------------------------------------------- C3 -----
\* chunk lines followed by one full_response line, each newline-terminated
ChunksThenFull(body) ==
  LET ls == TerminatedLines(body)
      n == Len(ls)
  IN /\ n >= 1
     /\ AllLines(body) = ls
     /\ ls[n] = FullLine
     /\ \A i \in 1..(n - 1) : ls[i] \in {ChunkA, ChunkB}

\* C3: for a stream of newline-terminated chunk lines followed by a single
\* full_response line, once the streaming call has returned onComplete has
\* been called exactly once, with the text of the full_response event.
C3_FullResponseCompletesOnce ==
  (pc = "resolved" /\ IsOk(resp.status) /\ ChunksThenFull(resp.body))
  => Args(log, "onComplete") = << <<Lit("F")>> >>

\* ---------------------------------------------------------------- C4 -----
\* the chunks handed over before the first terminal call
ChunksBeforeTerminal(calls) == Args(UpToTerminal(calls), "onChunk")

\* C4: whatever the delivery boundaries, once the streaming call has
\* returned, the chunks handed to onChunk before the first terminal callback
\* are the chunks of the body's lines before its first terminal event, in
\* order and once each (a last line without newline may or may not count).
C4_ChunksInOrderOnce ==
  (pc = "resolved" /\ IsOk(resp.status))
  => ChunksBeforeTerminal(CbArg(log))
       \in {ChunksBeforeTerminal(ExpectedCalls(TerminatedLines(resp.body))),
            ChunksBeforeTerminal(ExpectedCalls(AllLines(resp.body)))}

\* ---------------------------------------------------------------- C5 -----
\* C5: whenever the streaming call's promise has settled, the assistant
\* message created for the request is no longer marked as streaming.
C5_SettledIsNotStreaming ==
  Settled => \A i \in 1..Len(TypingMessages) : ~TypingMessages[i].isStreaming

\* ---------------------------------------------------------------- C6 -----
\* the lines the consumer's loop is handed in the step being taken
StepLines ==
  IF pc = "fbtext" THEN Split(resp.body)
  ELSE IF pc = "reading" /\ received' > received
  THEN TerminatedLines(buffer \o SubSeq(resp.body, received + 1, received'))
  ELSE IF pc = "xhr" /\ received' > lastIndex
  THEN Split(SubSeq(resp.body, lastIndex + 1, received'))
  ELSE <<>>
NewCalls == SubSeq(log', Len(log) + 1, Len(log'))

TimedOutMessage == <<Lit("Request timed out after "), Lit("95"), Lit(" seconds")>>

\* C7: a streaming request that has received no terminal event when the
\* timeout has expired is no longer in flight (its transport was aborted),
\* and onError has been called exactly once with the timed-out message.
C7_TimeoutAbortsOnce ==
  (/\ pc # "idle"
   /\ now - req.startedAt >= TIMEOUT
   /\ \A i \in 1..Len(log) : ~IsTerminalEvent(log[i]))
  => /\ ~InFlight
     /\ Len(SelectSeq(log, LAMBDA c : c.cb = "onError" /\ c.arg = TimedOutMessage)) = 1

\* ---------------------------------------------------------------- C8 -----
\* C8: when the endpoint has answered with a non-2xx status and the call has
\* settled, onError has been called with a message that contains the status
\* code and the text of the response body.
C8_HttpErrorReported ==
  (Settled /\ resp.status # 0 /\ ~IsOk(resp.status))
  => \E i \in 1..Len(log) :
       /\ log[i].cb = "onError"
       /\ Contains(log[i].arg, <<Lit(StatusText(resp.status))>>)
       /\ Contains(log[i].arg, resp.body)

C8_Witness ==
  /\ pc = "rejected"
  /\ resp.status = 500
  /\ resp.body = <<Lit("Internal Server Error")>>
  /\ \E i \in 1..Len(log) :
       log[i].cb = "onError" /\ Contains(log[i].arg, <<Lit("500")>> )
       /\ Contains(log[i].arg, resp.body)

\* ---------------------------------------------------------------- C9 -----
\* the callbacks the text fallback makes for a body
FallbackCalls(body) ==
  CbArg(ConsumeLines(Split(body),
                     [log |-> <<>>, acc |-> <<>>, msgs |-> <<>>, ret |-> FALSE],
                     req.id).log)

\* C9: for the same 2xx body, a call that has returned on an incremental
\* path (stream reader or XHR) has made the callbacks, with the arguments and
\* in the order, that the text fallback makes.
C9_SameCallsAsFallback ==
  (pc = "resolved" /\ IsOk(resp.status) /\ (platform # "web" \/ resp.hasBody))
  => CbArg(log) = FallbackCalls(resp.body)

\* --------------------------------------------------------------- C10 -----
\* C10: once the request's assistant message is finalized (isStreaming
\* false), no later step changes its content or its streaming flag.
C10_FinalizedIsFrozen ==
  [][ \A i \in DOMAIN messages :
        (messages[i].id = req.id /\ ~messages[i].isStreaming)
        => (i \in DOMAIN messages' /\ messages'[i] = messages[i]) ]_vars

\* ================================= chat screen, several requests ==========
\* Nothing of the screen keeps a second request from being started while a
\* first one streams (the send button is disabled only while the input is
\* empty).  Each handler call has its own closures over its typingMessage;
\* the streaming call it awaits invokes them, in an order and a number of
\* times that this part of the model leaves open.
MaxRequests == 2
MaxCallbacks == 2
MaxClock == 1

TransportIdle ==
  /\ platform = "web"
  /\ pc = "idle"
  /\ req = NoReq
  /\ resp = NoResp
  /\ received = 0
  /\ buffer = <<>>
  /\ accumulated = <<>>
  /\ lastIndex = 0
  /\ log = <<>>

\* nothing of the chat pipeline runs
PipelineIdle ==
  /\ TransportIdle
  /\ messages = <<>>
  /\ now = 0
  /\ ScreenIdle
  /\ RendererIdle
  /\ ExtractorIdle
  /\ SolveIdle

InitScreen ==
  /\ TransportIdle
  /\ messages = <<>>
  /\ now = 0
  /\ ScreenIdle
  /\ RendererIdle
  /\ ExtractorIdle
  /\ SolveIdle
  /\ UtilityIdle

\* the closures of one handler call: the id they compare with, the place of
\* the typing message the call appended, how often they ran, and whether
\* the awaited streaming call is still pending
Closure(api, id, slot) ==
  [api |-> api, id |-> id, slot |-> slot, calls |-> 0, pending |-> TRUE]

\* handleImageSelected, called while other requests may be streaming
handleImageSelectedN ==
  /\ Len(requests) < MaxRequests
  /\ messages' = messages \o <<Message(UserId(now), "user", ImageText, FALSE),
                               Message(TypingId(now), "assistant", AnalyzingText, TRUE)>>
  /\ requests' = Append(requests, Closure("solve", TypingId(now), Len(messages) + 2))
  /\ caller' = 0
  /\ UNCHANGED <<now, outsideScreen>>

\* handleSendMessage, called while other requests may be streaming
handleSendMessageN ==
  /\ Len(requests) < MaxRequests
  /\ Trim(InputText) # <<>>
  /\ messages' = messages \o <<Message(UserId(now), "user", InputText, FALSE),
                               Message(TypingId(now), "assistant", ThinkingText, TRUE)>>
  /\ requests' = Append(requests, Closure("chat", TypingId(now), Len(messages) + 2))
  /\ caller' = 0
  /\ UNCHANGED <<now, outsideScreen>>

CanCall(q) ==
  /\ q \in 1..Len(requests)
  /\ requests[q].pending
  /\ requests[q].calls < MaxCallbacks

\* (chunk) => setMessages(...) of request q
ChunkClosure(q, chunk) ==
  /\ CanCall(q)
  /\ messages' = OnChunkUI(messages, requests[q].id, chunk)
  /\ requests' = [requests EXCEPT ![q].calls = @ + 1]
  /\ caller' = q
  /\ UNCHANGED <<now, outsideScreen>>

\* (full) => stopStreamingFlush(typingMessage.id, full) of request q
CompleteClosure(q, full) ==
  /\ CanCall(q)
  /\ messages' = stopStreamingFlush(messages, requests[q].id, full)
  /\ requests' = [requests EXCEPT ![q].calls = @ + 1]
  /\ caller' = q
  /\ UNCHANGED <<now, outsideScreen>>

\* (err) => stopStreamingFlush(typingMessage.id, `Error: ${err}`) of request q
ErrorClosure(q, err) ==
  /\ CanCall(q)
  /\ messages' = stopStreamingFlush(messages, requests[q].id, ErrorPrefix \o err)
  /\ requests' = [requests EXCEPT ![q].calls = @ + 1]
  /\ caller' = q
  /\ UNCHANGED <<now, outsideScreen>>

\* the awaited streaming call of request q rejects: the handler's catch
CatchClosure(q, message) ==
  /\ q \in 1..Len(requests)
  /\ requests[q].pending
  /\ messages' = HandlerCatch(messages, requests[q].id, message)
  /\ requests' = [requests EXCEPT ![q].pending = FALSE]
  /\ caller' = q
  /\ UNCHANGED <<now, outsideScreen>>

\* the awaited streaming call of request q resolves: the handler returns
AwaitResolves(q) ==
  /\ q \in 1..Len(requests)
  /\ requests[q].pending
  /\ requests' = [requests EXCEPT ![q].pending = FALSE]
  /\ caller' = 0
  /\ UNCHANGED <<messages, now, outsideScreen>>

\* Date.now() moves on by a millisecond
Millisecond ==
  /\ now < MaxClock
  /\ now' = now + 1
  /\ caller' = 0
  /\ UNCHANGED <<messages, requests, outsideScreen>>

NextScreen ==
  \/ handleImageSelectedN
  \/ handleSendMessageN
  \/ \E q \in 1..MaxRequests : ChunkClosure(q, <<Lit("a")>>)
  \/ \E q \in 1..MaxRequests : CompleteClosure(q, <<Lit("F")>>)
  \/ \E q \in 1..MaxRequests : ErrorClosure(q, <<Lit("E")>>)
  \/ \E q \in 1..MaxRequests : CatchClosure(q, NetworkFailedMessage)
  \/ \E q \in 1..MaxRequests : AwaitResolves(q)
  \/ Millisecond

SpecScreen == InitScreen /\ [][NextScreen]_vars

\* --------------------------------------------------------------- C11 -----
\* C11: with a second request started while a first one is pending, a step
\* in which a closure of one request runs leaves the assistant message
\* created for every other request as it was (content and streaming flag).
C11_ClosuresUpdateOwnMessageOnly ==
  [][ caller' # 0
      => \A q \in 1..Len(requests) :
           q # caller' => messages'[requests[q].slot] = messages[requests[q].slot] ]_vars

\* ============================================= ChatMessageRenderer ========
\* The content prop is a sequence of characters.  Positions are those of
\* JavaScript: the first character is at index 0, and -1 means not found.
MaxText == 6
MaxWideText == 5

BS == "\\"
LF == "\n"
\* the characters the streaming parser tells apart, and those the final
\* parsers tell apart
NarrowChars == {BS, "[", "]", "$", "x"}
WideChars == {BS, "[", "]", "(", ")", "$", LF, "x"}
Texts(chars, n) == UNION {[1..m -> chars] : m \in 0..n}

\* text.slice(a, b)
slice(text, a, b) == SubSeq(text, a + 1, b)
startsAt(text, pat, i) ==
  i >= 0 /\ i + Len(pat) <= Len(text) /\ slice(text, i, i + Len(pat)) = pat
\* text.indexOf(pat, from)
indexOf(text, pat, from) ==
  IF \E i \in from..Len(text) : startsAt(text, pat, i)
  THEN CHOOSE i \in from..Len(text) :
         startsAt(text, pat, i) /\ \A j \in from..(i - 1) : ~startsAt(text, pat, j)
  ELSE -1

Part(type, c) == [type |-> type, content |-> c]
\* pushText(end), with i the parser's position
pushText(ps, text, i, end) ==
  IF end > i THEN Append(ps, Part("text", slice(text, i, end))) ELSE ps

\* the search for the last close delimiter instead of the first
findClosingLast(text, start, open, close) ==
  LET found == {i \in (start + Len(open))..Len(text) : startsAt(text, close, i)}
  IN IF found = {} THEN -1 ELSE CHOOSE i \in found : \A j \in found : j <= i

\* the search for the close delimiter that starts at the open delimiter
findClosingAtOpen(text, start, open, close) == indexOf(text, close, start)

\* text.indexOf(close, start + open.length)
findClosing(text, start, open, close) == indexOf(text, close, start + Len(open))

\* while (i < n) { ... } of parseContentStreaming
RECURSIVE StreamingLoop(_, _, _)
StreamingLoop(text, i, ps) ==
  LET n == Len(text)
      nextDisplay == indexOf(text, <<BS, "[">>, i)
      nextDollarBlock == indexOf(text, <<"$", "$">>, i)
      candidates == {nextDisplay, nextDollarBlock} \ {-1}
      next == CHOOSE c \in candidates : \A d \in candidates : c <= d
      open == IF next = nextDisplay THEN <<BS, "[">> ELSE <<"$", "$">>
      close == IF next = nextDisplay THEN <<BS, "]">> ELSE <<"$", "$">>
      closeIdx == findClosing(text, next, open, close)
      ps1 == pushText(ps, text, i, next)
  IN IF ~(i < n) THEN ps
     ELSE IF candidates = {} THEN pushText(ps, text, i, n)
     ELSE IF closeIdx # -1
     THEN StreamingLoop(text, closeIdx + 2,
                        Append(ps1, Part("math", slice(text, next, closeIdx + 2))))
     ELSE Append(ps1, Part("text", slice(text, next, n)))

parseContentStreaming(text) == StreamingLoop(text, 0, <<>>)

InitStreaming ==
  /\ TransportIdle
  /\ messages = <<>>
  /\ now = 0
  /\ ScreenIdle
  /\ contentProp \in Texts(NarrowChars, MaxText)
  /\ rendered = "no"
  /\ parts = <<>>
  /\ ExtractorIdle
  /\ SolveIdle
  /\ UtilityIdle

\* ChatMessageRenderer rendered with isStreaming true
RenderStreaming ==
  /\ rendered = "no"
  /\ parts' = parseContentStreaming(contentProp)
  /\ rendered' = "streaming"
  /\ UNCHANGED <<contentProp, outsideRenderer>>

NextStreaming == RenderStreaming
SpecStreaming == InitStreaming /\ [][NextStreaming]_vars

\* --------------------------------------------------------------- C12 -----
Contents(ps) == [k \in 1..Len(ps) |-> ps[k].content]
OpenDisplay == <<BS, "[">>
CloseDisplay == <<BS, "]">>
DollarBlock == <<"$", "$">>
FirstTwo(c) == SubSeq(c, 1, 2)
LastTwo(c) == SubSeq(c, Len(c) - 1, Len(c))
\* an open delimiter, something or nothing, and the matching close delimiter
WellDelimited(c) ==
  /\ Len(c) >= 4
  /\ \/ FirstTwo(c) = OpenDisplay /\ LastTwo(c) = CloseDisplay
     \/ FirstTwo(c) = DollarBlock /\ LastTwo(c) = DollarBlock
\* the place of the first open delimiter of c, -1 when it has none
FirstOpen(c) ==
  LET d == indexOf(c, OpenDisplay, 0)
      b == indexOf(c, DollarBlock, 0)
  IN IF d = -1 THEN b ELSE IF b = -1 THEN d ELSE IF d < b THEN d ELSE b
\* c starts with an open delimiter that no close delimiter follows
OpenWithoutClose(c) ==
  \/ FirstTwo(c) = OpenDisplay /\ indexOf(c, CloseDisplay, 2) = -1
  \/ FirstTwo(c) = DollarBlock /\ indexOf(c, DollarBlock, 2) = -1
\* what follows the last math segment
LastMath(ps) ==
  IF \E k \in 1..Len(ps) : ps[k].type = "math"
  THEN CHOOSE k \in 1..Len(ps) :
         ps[k].type = "math" /\ \A j \in (k + 1)..Len(ps) : ps[j].type = "text"
  ELSE 0
AfterLastMath(ps) == Concat(SubSeq(Contents(ps), LastMath(ps) + 1, Len(ps)))

\* C12: in streaming mode the segments are the input cut into pieces; every
\* math segment begins with an open delimiter and ends with its matching
\* close delimiter; and when an open delimiter follows the last math segment
\* (it has no close delimiter after it), the last segment is of kind text
\* and is that delimiter together with the rest of the input.
C12_StreamingMathIsClosed ==
  rendered = "streaming"
  => /\ Concat(Contents(parts)) = contentProp
     /\ \A k \in 1..Len(parts) :
          parts[k].type = "math" => WellDelimited(parts[k].content)
     /\ LET tail == AfterLastMath(parts)
        IN FirstOpen(tail) # -1
           => /\ parts[Len(parts)] = Part("text", slice(tail, FirstOpen(tail), Len(tail)))
              /\ OpenWithoutClose(parts[Len(parts)].content)

C12_Witness ==
  /\ rendered = "streaming"
  /\ contentProp = <<BS, "[", BS, "]", "$", "$">>
  /\ parts = <<Part("math", <<BS, "[", BS, "]">>), Part("text", <<"$", "$">>)>>

\* ------------------------------------------- the final-mode parsers ------
\* A regular expression of the renderers is a list of alternatives, tried in
\* order at each position: a block alternative  open [\s\S]*? close , or the
\* inline alternative  \$[^$\n]*?\$ .
Block(open, close) == [kind |-> "block", open |-> open, close |-> close]
Inline == [kind |-> "inline", open |-> <<"$">>, close |-> <<"$">>]

\* /(\\\[[\s\S]*?\\\]|\$\$[\s\S]*?\$\$)/g
\* the pattern without its second alternative
mathBlockRegexDisplayOnly == <<Block(<<BS, "[">>, <<BS, "]">>)>>
mathBlockRegex == <<Block(<<BS, "[">>, <<BS, "]">>), Block(<<"$", "$">>, <<"$", "$">>)>>
\* /(\\\[[\s\S]*?\\\]|\\\([\s\S]*?\\\)|\$\$[\s\S]*?\$\$|\$[^$\n]*?\$)/g
latexPattern == <<Block(<<BS, "[">>, <<BS, "]">>), Block(<<BS, "(">>, <<BS, ")">>),
                  Block(<<"$", "$">>, <<"$", "$">>), Inline>>

\* where the match of one alternative that starts at i ends, -1 for no match
matchEnd(text, i, alt) ==
  IF ~startsAt(text, alt.open, i) THEN -1
  ELSE IF alt.kind = "block"
  THEN LET c == indexOf(text, alt.close, i + Len(alt.open))
       IN IF c = -1 THEN -1 ELSE c + Len(alt.close)
  ELSE LET stops == {j \in (i + 1)..(Len(text) - 1) : text[j + 1] \in {"$", LF}}
           j == CHOOSE c \in stops : \A d \in stops : c <= d
       IN IF stops # {} /\ text[j + 1] = "$" THEN j + 1 ELSE -1

RECURSIVE altsEnd(_, _, _)
altsEnd(text, i, alts) ==
  IF alts = <<>> THEN -1
  ELSE IF matchEnd(text, i, Head(alts)) # -1 THEN matchEnd(text, i, Head(alts))
  ELSE altsEnd(text, i, Tail(alts))

\* regex.exec(text) with regex.lastIndex = lastIdx: the leftmost match
exec(text, alts, lastIdx) ==
  IF \E i \in lastIdx..Len(text) : altsEnd(text, i, alts) # -1
  THEN LET i == CHOOSE c \in lastIdx..Len(text) :
                  /\ altsEnd(text, c, alts) # -1
                  /\ \A d \in lastIdx..(c - 1) : altsEnd(text, d, alts) = -1
       IN [index |-> i, end |-> altsEnd(text, i, alts)]
  ELSE [index |-> -1, end |-> -1]

\* a split pattern without the capturing group
noCaptures(text, m) == <<>>

\* what split adds for a match: the text of the pattern's capturing group
captures(text, m) == <<slice(text, m.index, m.end)>>

\* text.split(regex), from position p on
RECURSIVE SplitRegex(_, _, _)
SplitRegex(text, alts, p) ==
  LET m == exec(text, alts, p)
  IN IF m.index = -1 THEN <<slice(text, p, Len(text))>>
     ELSE <<slice(text, p, m.index)>> \o captures(text, m)
          \o SplitRegex(text, alts, m.end)

parseContent(text) ==
  LET segments == SplitRegex(text, mathBlockRegex, 0)
  IN [k \in 1..Len(segments) |->
        IF exec(segments[k], mathBlockRegex, 0).index # -1
        THEN Part("math", segments[k])
        ELSE Part("text", segments[k])]

\* while ((match = latexPattern.exec(text)) !== null) of formatContent, and
\* the statement after it
RECURSIVE FormatLoop(_, _, _)
FormatLoop(text, lastIdx, ps) ==
  LET match == exec(text, latexPattern, lastIdx)
      ps1 == IF match.index > lastIdx
             THEN Append(ps, Part("text", slice(text, lastIdx, match.index)))
             ELSE ps
  IN IF match.index # -1
     THEN FormatLoop(text, match.end,
                     Append(ps1, Part("math", slice(text, match.index, match.end))))
     ELSE IF lastIdx < Len(text)
     THEN Append(ps, Part("text", slice(text, lastIdx, Len(text))))
     ELSE ps

formatContent(text) == FormatLoop(text, 0, <<>>)

InitFinal ==
  /\ TransportIdle
  /\ messages = <<>>
  /\ now = 0
  /\ ScreenIdle
  /\ contentProp \in Texts(WideChars, MaxWideText)
  /\ rendered = "no"
  /\ parts = <<>>
  /\ ExtractorIdle
  /\ SolveIdle
  /\ UtilityIdle

\* ChatMessageRenderer rendered with isStreaming false
RenderFinal ==
  /\ rendered = "no"
  /\ parts' = parseContent(contentProp)
  /\ rendered' = "final"
  /\ UNCHANGED <<contentProp, outsideRenderer>>

\* the ChatMessageRenderer of components/ChatMessageRenderer.tsx rendered
RenderFormat ==
  /\ rendered = "no"
  /\ parts' = formatContent(contentProp)
  /\ rendered' = "format"
  /\ UNCHANGED <<contentProp, outsideRenderer>>

NextFinal == RenderFinal \/ RenderFormat
SpecFinal == InitFinal /\ [][NextFinal]_vars

\* --------------------------------------------------------------- C13 -----
\* C13: in final mode, the contents of the segments the parser returned,
\* concatenated in order, are the input text.
C13_FinalRoundTrip ==
  rendered \in {"final", "format"} => Concat(Contents(parts)) = contentProp

C13_Witness ==
  /\ rendered = "final"
  /\ contentProp = <<"x", "$", "$", "$", "$">>
  /\ parts = <<Part("text", <<"x">>), Part("math", <<"$", "$", "$", "$">>),
               Part("text", <<>>)>>

\* ====================================== the structured extractor =========
\* JSON values, all of one shape.  An object has problem_type and approach
\* (the empty text when the field is missing) and a solution; a solution is
\* missing, a string, a number, an object, or a list of elements that are
\* strings or numbers.
Sol(kind, items) == [kind |-> kind, items |-> items]
NoSol == Sol("absent", <<>>)
Json(kind, pt, ap, sol) == [kind |-> kind, pt |-> pt, ap |-> ap, sol |-> sol]
NoJson == Json("none", "", "", NoSol)
JNull == Json("null", "", "", NoSol)
JNumber == Json("number", "", "", NoSol)

\* A piece of a response text: a character, or a stretch of text that the
\* extractor's patterns take or leave as a whole.
Piece(t, c, v) == [t |-> t, c |-> c, v |-> v]
Ch(c) == Piece("ch", c, NoJson)
Str(cs) == [i \in 1..Len(cs) |-> Ch(cs[i])]
StrItem(cs) == [kind |-> "string", text |-> Str(cs)]
NumItem == [kind |-> "number", text |-> <<>>]

\* the text of a JSON value without braces ( null , 42 )
J(v) == Piece("json", "", v)
\* the text of a JSON object, braces nested at most once
O(v) == Piece("obj", "", v)
\* braces around something that is not JSON:  {x}
X == Piece("braces", "{x}", NoJson)
\* a fence of three backquotes, bare and followed by  json  (c is what
\* follows the backquotes)
F == Piece("fence", "", NoJson)
FJ == Piece("fence", "json", NoJson)
\* <json> and </json>
TagOpen == Piece("tag", "<json>", NoJson)
TagClose == Piece("tag", "</json>", NoJson)
\* JSON:
Marker == Piece("marker", "JSON:", NoJson)
\* a space, and an empty line (two newlines)
Sp == Piece("ws", " ", NoJson)
Blank == Piece("ws", "\n\n", NoJson)

isWs(p) == p.t = "ws" \/ (p.t = "ch" /\ p.c = " ")
isBrace(p) == p.t \in {"obj", "braces"}
isFence(p) == p.t = "fence"

\* String.prototype.trim() on pieces
RECURSIVE trimText(_)
trimText(s) ==
  IF s = <<>> THEN s
  ELSE IF isWs(s[1]) THEN trimText(Tail(s))
  ELSE IF isWs(s[Len(s)]) THEN trimText(SubSeq(s, 1, Len(s) - 1))
  ELSE s

\* JSON.parse(text): white space around one JSON value is allowed
JSONparseText(s) ==
  LET t == trimText(s)
  IN IF Len(t) = 1 /\ t[1].t \in {"json", "obj"}
     THEN [ok |-> TRUE, val |-> t[1].v]
     ELSE [ok |-> FALSE, val |-> NoJson]

\* the first of the places (1-based) that is not before from, 0 if none
FirstFrom(from, places) ==
  IF \E i \in places : i >= from
  THEN CHOOSE i \in places : i >= from /\ \A j \in places : j >= from => i <= j
  ELSE 0
notWs(p) == ~isWs(p)
NoMatch == [matched |-> FALSE, group |-> <<>>]
Match(g) == [matched |-> TRUE, group |-> g]

\* /(fence)(?:json)?\s*(\{[\s\S]*?\})\s*(fence)/gi  matched at the fence at place i:
\* white space, an opening brace, then lazily up to the first closing brace
\* that white space and a fence follow
CodeBlockAt(s, i) ==
  LET j == FirstFrom(i + 1, {at \in DOMAIN s : notWs(s[at])})
      ends == {e \in j..Len(s) :
                 /\ isBrace(s[e])
                 /\ FirstFrom(e + 1, {at \in DOMAIN s : notWs(s[at])}) # 0
                 /\ isFence(s[FirstFrom(e + 1, {at \in DOMAIN s : notWs(s[at])})])}
      e == CHOOSE c \in ends : \A d \in ends : c <= d
  IN IF j # 0 /\ isBrace(s[j]) /\ ends # {} THEN Match(SubSeq(s, j, e)) ELSE NoMatch

\* jsonCodeBlockRegex.exec(responseText): the leftmost match
jsonCodeBlockRegex(s) ==
  LET starts == {i \in 1..Len(s) : isFence(s[i]) /\ CodeBlockAt(s, i).matched}
  IN IF starts = {} THEN NoMatch
     ELSE CodeBlockAt(s, CHOOSE i \in starts : \A k \in starts : i <= k)

\* responseText.match(jsonObjectRegex): every brace-delimited stretch
jsonObjectRegex(s) == SelectSeq(s, isBrace)

\* /(fence)json\s*([\s\S]*?)\s*(fence)/gi
markerFencedJson(s) ==
  LET starts == {i \in 1..Len(s) : s[i] = FJ /\ FirstFrom(i + 1, {at \in DOMAIN s : isFence(s[at])}) # 0}
      i == CHOOSE c \in starts : \A d \in starts : c <= d
  IN IF starts = {} THEN NoMatch
     ELSE Match(SubSeq(s, i + 1, FirstFrom(i + 1, {at \in DOMAIN s : isFence(s[at])}) - 1))

\* /(fence)\s*([\s\S]*?)\s*(fence)/gi : after (fence)json the group starts with  json
markerFenced(s) ==
  LET starts == {i \in 1..Len(s) : isFence(s[i]) /\ FirstFrom(i + 1, {at \in DOMAIN s : isFence(s[at])}) # 0}
      i == CHOOSE c \in starts : \A d \in starts : c <= d
      lead == IF s[i] = FJ THEN Str(<<"j", "s", "o", "n">>) ELSE <<>>
  IN IF starts = {} THEN NoMatch
     ELSE Match(lead \o SubSeq(s, i + 1, FirstFrom(i + 1, {at \in DOMAIN s : isFence(s[at])}) - 1))

\* /<json>([\s\S]*?)<\/json>/gi
isTagClose(p) == p = TagClose
markerTag(s) ==
  LET starts == {i \in 1..Len(s) : s[i] = TagOpen /\ FirstFrom(i + 1, {at \in DOMAIN s : isTagClose(s[at])}) # 0}
      i == CHOOSE c \in starts : \A d \in starts : c <= d
  IN IF starts = {} THEN NoMatch
     ELSE Match(SubSeq(s, i + 1, FirstFrom(i + 1, {at \in DOMAIN s : isTagClose(s[at])}) - 1))

\* /JSON:\s*([\s\S]*?)(?:\n\n|\n$|$)/gi
isBlank(p) == p = Blank
isMarker(p) == p = Marker
markerJsonColon(s) ==
  LET i == FirstFrom(1, {at \in DOMAIN s : isMarker(s[at])})
      a == FirstFrom(i + 1, {at \in DOMAIN s : notWs(s[at])})
      b == FirstFrom(a, {at \in DOMAIN s : isBlank(s[at])})
  IN IF i = 0 THEN NoMatch
     ELSE IF a = 0 THEN Match(<<>>)
     ELSE Match(SubSeq(s, a, IF b = 0 THEN Len(s) ELSE b - 1))

\* markerPatterns, each applied to the response text
markerPatterns(s) ==
  <<markerFencedJson(s), markerFenced(s), markerTag(s), markerJsonColon(s)>>

\* for (const potentialJson of matches) / for (const pattern of markerPatterns):
\* the first of the texts that parses, or the value of `otherwise`
RECURSIVE FirstParsed(_, _)
FirstParsed(texts, otherwise) ==
  IF texts = <<>> THEN otherwise
  ELSE IF JSONparseText(Head(texts)).ok THEN JSONparseText(Head(texts)).val
  ELSE FirstParsed(Tail(texts), otherwise)

Groups(ms) ==
  LET sel == SelectSeq(ms, LAMBDA m : m.matched)
  IN [k \in 1..Len(sel) |-> trimText(sel[k].group)]
Singletons(s) == [k \in 1..Len(s) |-> <<s[k]>>]

\* the cascade with the marker patterns consulted before the brace-delimited
\* stretches
extractJsonMarkersFirst(has, responseText) ==
  IF ~has \/ responseText = <<>> \/ responseText = Str(<<"undefined">>) THEN JNull
  ELSE IF JSONparseText(responseText).ok THEN JSONparseText(responseText).val
  ELSE IF jsonCodeBlockRegex(responseText).matched
          /\ JSONparseText(jsonCodeBlockRegex(responseText).group).ok
  THEN JSONparseText(jsonCodeBlockRegex(responseText).group).val
  ELSE FirstParsed(Groups(markerPatterns(responseText)),
                   FirstParsed(Singletons(jsonObjectRegex(responseText)), JNull))

\* extractJsonFromGptResponse; a response that is missing is has |-> FALSE
extractJsonFromGptResponse(has, responseText) ==
  IF ~has \/ responseText = <<>> \/ responseText = Str(<<"undefined">>) THEN JNull
  ELSE IF JSONparseText(responseText).ok THEN JSONparseText(responseText).val
  ELSE IF jsonCodeBlockRegex(responseText).matched
          /\ JSONparseText(jsonCodeBlockRegex(responseText).group).ok
  THEN JSONparseText(jsonCodeBlockRegex(responseText).group).val
  ELSE FirstParsed(Singletons(jsonObjectRegex(responseText)),
                   FirstParsed(Groups(markerPatterns(responseText)), JNull))

\* ------------------------------------------ extractNumericalSolution -----
\* A JavaScript number that the extractor can produce is a fraction n/d in
\* lowest terms with d > 0, or NaN; null is the absent value.
RECURSIVE GCD(_, _)
GCD(a, b) == IF b = 0 THEN a ELSE GCD(b, a % b)
Abs(a) == IF a < 0 THEN -a ELSE a
Number(n, d) ==
  LET g == GCD(Abs(n), Abs(d))
  IN [kind |-> "number", n |-> (IF d < 0 THEN -n ELSE n) \div g, d |-> Abs(d) \div g]
NaN == [kind |-> "NaN", n |-> 0, d |-> 1]
Null == [kind |-> "null", n |-> 0, d |-> 1]

DigitChars == {"1", "2"}
DigitVal(c) == IF c = "1" THEN 1 ELSE 2
isChar(p, c) == p.t = "ch" /\ p.c = c
isDigit(p) == p.t = "ch" /\ p.c \in DigitChars
isSign(p) == p.t = "ch" /\ p.c \in {"-", "+"}
notDigit(p) == ~isDigit(p)
\* the place after the digits that start at place i (1-based)
DigitsEnd(s, i) ==
  IF FirstFrom(i, {at \in DOMAIN s : notDigit(s[at])}) = 0 THEN Len(s) + 1 ELSE FirstFrom(i, {at \in DOMAIN s : notDigit(s[at])})
RECURSIVE Pow10(_)
Pow10(k) == IF k = 0 THEN 1 ELSE 10 * Pow10(k - 1)
RECURSIVE DigitsValue(_)
DigitsValue(ds) ==
  IF ds = <<>> THEN 0 ELSE 10 * DigitsValue(SubSeq(ds, 1, Len(ds) - 1)) + DigitVal(ds[Len(ds)].c)

\* where  [-+]?\d*\.?\d+(?:\/\d+)?  matched at place i ends (the place after
\* its last character), 0 when it does not match there
NumeralEnd(s, i) ==
  LET a == IF i <= Len(s) /\ isSign(s[i]) THEN i + 1 ELSE i
      b == DigitsEnd(s, a)
      hasFrac == b + 1 <= Len(s) /\ isChar(s[b], ".") /\ isDigit(s[b + 1])
      c == IF hasFrac THEN DigitsEnd(s, b + 1) ELSE b
      hasDen == c + 1 <= Len(s) /\ isChar(s[c], "/") /\ isDigit(s[c + 1])
  IN IF ~hasFrac /\ b = a THEN 0
     ELSE IF hasDen THEN DigitsEnd(s, c + 1) ELSE c

\* finalStep.match(/v\s*=\s*(...)/i): the text of the group, <<>> for no match
AxisMatch(s, v) ==
  LET NumeralPlace(i) ==
        LET e == FirstFrom(i + 1, {at \in DOMAIN s : notWs(s[at])})
            k == IF e = 0 THEN 0 ELSE FirstFrom(e + 1, {at \in DOMAIN s : notWs(s[at])})
        IN IF e # 0 /\ isChar(s[e], "=") /\ k # 0 /\ NumeralEnd(s, k) # 0 THEN k ELSE 0
      starts == {i \in 1..Len(s) : isChar(s[i], v) /\ NumeralPlace(i) # 0}
      i == CHOOSE c \in starts : \A d \in starts : c <= d
  IN IF starts = {} THEN <<>>
     ELSE SubSeq(s, NumeralPlace(i), NumeralEnd(s, NumeralPlace(i)) - 1)

\* parseInt(text): an optional sign and the digits that follow it
parseInt(text) ==
  LET a == IF text # <<>> /\ isSign(text[1]) THEN 2 ELSE 1
      b == DigitsEnd(text, a)
      neg == text # <<>> /\ isChar(text[1], "-")
  IN IF b = a THEN NaN
     ELSE Number((IF neg THEN -1 ELSE 1) * DigitsValue(SubSeq(text, a, b - 1)), 1)

\* parseFloat(text), for a text of the shape  [-+]?\d*\.?\d+
parseFloat(text) ==
  LET a == IF text # <<>> /\ isSign(text[1]) THEN 2 ELSE 1
      b == DigitsEnd(text, a)
      neg == text # <<>> /\ isChar(text[1], "-")
      frac == IF b <= Len(text) THEN SubSeq(text, b + 1, Len(text)) ELSE <<>>
  IN Number((IF neg THEN -1 ELSE 1)
              * (DigitsValue(SubSeq(text, a, b - 1)) * Pow10(Len(frac)) + DigitsValue(frac)),
            Pow10(Len(frac)))

Divide(p, q) ==
  IF p.kind = "NaN" \/ q.kind = "NaN" \/ q.n = 0 THEN NaN
  ELSE Number(p.n * q.d, p.d * q.n)

isSlash(p) == isChar(p, "/")

parseFraction(value) ==
  LET sl == FirstFrom(1, {at \in DOMAIN value : isSlash(value[at])})
  IN IF sl # 0
     THEN Divide(parseInt(SubSeq(value, 1, sl - 1)),
                 parseInt(SubSeq(value, sl + 1, Len(value))))
     ELSE parseFloat(value)

extractNumericalSolution(finalStep) ==
  LET xMatch == AxisMatch(finalStep, "x")
      yMatch == AxisMatch(finalStep, "y")
  IN [x |-> IF xMatch # <<>> THEN parseFraction(xMatch) ELSE Null,
      y |-> IF yMatch # <<>> THEN parseFraction(yMatch) ELSE Null]

\* --------------------------------------------- parseBackendResponse -----
MathProblem == "Math Problem"
NoSolutionProvided == StrItem(<<"No solution provided">>)
UnableToProcess == StrItem(<<"Unable to process the response">>)
ObjItem == [kind |-> "object", text |-> <<>>]

\* a JavaScript value in a condition: null, the empty string and a missing
\* field are falsy; the numbers and objects of this model are not
truthyJson(v) == v.kind \notin {"null", "none"}
truthyItem(it) == ~(it.kind = "string" /\ it.text = <<>>)

Step(description, n, calculation, result) ==
  [description |-> description, n |-> n, calculation |-> calculation, result |-> result]
\* solutionSteps.map((stepText, index) => ...) ; `Step ${index + 1}` is the
\* description "Step" with its number, "Final Answer" has number 0
StepsOf(solutionSteps) ==
  [index \in 1..Len(solutionSteps) |->
     IF index = Len(solutionSteps)
     THEN Step("Final Answer", 0, solutionSteps[index], "Complete")
     ELSE Step("Step", index, solutionSteps[index], "")]

Returned(pt, ap, steps, solution) ==
  [kind |-> "returned", problem_type |-> pt, approach |-> ap, steps |-> steps,
   solution |-> solution]
\* TypeError: finalStep.match is not a function
Threw == [kind |-> "threw", problem_type |-> "", approach |-> "", steps |-> <<>>,
          solution |-> [x |-> Null, y |-> Null]]

\* Array.isArray(solution) ? solution : [solution || "No solution provided"]
SolutionSteps(sol) ==
  IF sol.kind = "list" THEN sol.items
  ELSE IF sol.kind = "absent" \/ ~truthyItem(sol.items[1]) THEN <<NoSolutionProvided>>
  ELSE <<sol.items[1]>>

\* a fallback that never carries the response text
FallbackWithoutText(br) ==
  Json("object", MathProblem, "AI Analysis", Sol("list", <<UnableToProcess>>))

\* the fallback for when no JSON could be extracted
FallbackResponse(br) ==
  Json("object", MathProblem, "AI Analysis",
       Sol("list", <<IF br.has /\ br.chatgpt_response # <<>>
                     THEN [kind |-> "string", text |-> br.chatgpt_response]
                     ELSE UnableToProcess>>))

parseBackendResponse(br, gpt) ==
  LET finalGptResponse == IF truthyJson(gpt) THEN gpt ELSE FallbackResponse(br)
      problemType == IF finalGptResponse.pt # "" THEN finalGptResponse.pt ELSE MathProblem
      approach == IF finalGptResponse.ap # "" THEN finalGptResponse.ap
                  ELSE "AI-generated solution"
      solutionSteps == SolutionSteps(finalGptResponse.sol)
      last == solutionSteps[Len(solutionSteps)]
      \* solutionSteps[solutionSteps.length - 1] || ""
      finalStep == IF solutionSteps = <<>> \/ ~truthyItem(last) THEN StrItem(<<>>) ELSE last
  IN IF finalStep.kind # "string" THEN Threw
     ELSE Returned(problemType, approach, StepsOf(solutionSteps),
                   extractNumericalSolution(finalStep.text))

\* the recovered values the responses carry
TextX2 == <<"x", "=", "2">>
ObjList == Json("object", "Algebra", "Isolate x",
                Sol("list", <<StrItem(<<"a">>), StrItem(TextX2)>>))
ObjString == Json("object", "", "", Sol("string", <<StrItem(<<"x", "=", "1">>)>>))
JsonObjects ==
  {ObjList, ObjString,
   Json("object", "Algebra", "", NoSol),
   Json("object", "", "", Sol("string", <<StrItem(<<>>)>>)),
   Json("object", "", "", Sol("number", <<NumItem>>)),
   Json("object", "", "", Sol("object", <<ObjItem>>)),
   Json("object", "Algebra", "Isolate x", Sol("list", <<>>)),
   Json("object", "", "", Sol("list", <<StrItem(<<"a">>)>>)),
   Json("object", "", "", Sol("list", <<StrItem(<<"a">>), NumItem>>)),
   Json("object", "", "", Sol("list", <<NumItem, StrItem(<<"b">>)>>)),
   Json("object", "", "", Sol("list", <<StrItem(<<"a">>), StrItem(<<"b">>), StrItem(<<"c">>)>>))}

MaxPieces == 4
CascadePieces ==
  {J(JNumber), O(ObjList), O(ObjString), X, F, FJ, TagOpen, TagClose, Marker, Sp, Blank}
ResponseTexts ==
  Texts(CascadePieces, MaxPieces)
  \cup {<<O(v)>> : v \in JsonObjects}
  \cup {<<J(JNull)>>, <<Marker, J(JNull)>>, Str(<<"undefined">>), Str(<<"?", "?", "?">>)}

BackendResponse(has, text) ==
  [has |-> has, chatgpt_response |-> text, math_equation |-> "2x + 5 = 13",
   status |-> "completed"]

ExtractorStart(responses) ==
  /\ TransportIdle
  /\ messages = <<>>
  /\ now = 0
  /\ ScreenIdle
  /\ RendererIdle
  /\ backendResponse \in responses
  /\ gptResponse = <<>>
  /\ mappedResult = <<>>
  /\ SolveIdle
  /\ UtilityIdle

InitExtract ==
  ExtractorStart({BackendResponse(TRUE, t) : t \in ResponseTexts}
                 \cup {BackendResponse(FALSE, <<>>)})

\* parseBackendResponse(backendResponse) is called
ParseBackend ==
  /\ mappedResult = <<>>
  /\ LET gpt == extractJsonFromGptResponse(backendResponse.has,
                                            backendResponse.chatgpt_response)
     IN /\ gptResponse' = <<gpt>>
        /\ mappedResult' = <<parseBackendResponse(backendResponse, gpt)>>
  /\ UNCHANGED <<backendResponse, outsideExtractor>>

NextExtract == ParseBackend
SpecExtract == InitExtract /\ [][NextExtract]_vars

\* --------------------------------------------------------------- C14 -----
Called == mappedResult # <<>>
Result == mappedResult[1]
Recovered == gptResponse[1]

\* C14: whatever the response text and the JSON value recovered from it,
\* parseBackendResponse returns a structured solution: it does not throw.
C14_NeverRaises ==
  Called => Result.kind = "returned"

\* --------------------------------------------------------------- C15 -----
\* C15: the steps list of a structured solution that parseBackendResponse
\* returned has at least one step.
C15_StepsNotEmpty ==
  (Called /\ Result.kind = "returned") => Len(Result.steps) >= 1

\* --------------------------------------------------------------- C16 -----
\* the texts the strategies hand to JSON.parse, in the order of the cascade:
\* the whole text, the fenced code block, the brace-delimited stretches from
\* left to right, the groups of the marker patterns
Attempts(text) ==
  <<text>>
  \o (IF jsonCodeBlockRegex(text).matched THEN <<jsonCodeBlockRegex(text).group>> ELSE <<>>)
  \o Singletons(jsonObjectRegex(text))
  \o Groups(markerPatterns(text))
Parsing(text) == SelectSeq(Attempts(text), LAMBDA a : JSONparseText(a).ok)

\* C16: the result of extractJsonFromGptResponse is the value of the first
\* attempt, in the order of the cascade, that parses, and it is null only
\* when every attempt failed.
C16_FirstSuccessWins ==
  Called
  => LET ok == Parsing(backendResponse.chatgpt_response)
     IN /\ ok # <<>> => Recovered = JSONparseText(ok[1]).val
        /\ Recovered = JNull <=> ok = <<>>

\* C16 as amended: the result is the value of the first attempt that parses
\* (which is null when that attempt's text is the JSON text  null ), and
\* null when every attempt failed.
C16_FirstSuccessWinsOrNull ==
  Called
  => LET ok == Parsing(backendResponse.chatgpt_response)
     IN Recovered = IF ok # <<>> THEN JSONparseText(ok[1]).val ELSE JNull

\* a fenced number and, after it, an object in braces: whole-text parse and
\* code block fail, the braces are consulted before the marker patterns
C16_Witness ==
  /\ Called
  /\ backendResponse.chatgpt_response = <<F, J(JNumber), F, O(ObjString)>>
  /\ Recovered = ObjString

\* --------------------------------------------------------------- C17 -----
\* C17: when no strategy recovers JSON from a non-empty response text, the
\* result has problem_type "Math Problem", approach "AI Analysis" and exactly
\* one step, whose calculation is the raw response text; when the text is
\* empty or absent, the single step is the placeholder.
C17_FallbackStructure ==
  (Called /\ Parsing(backendResponse.chatgpt_response) = <<>>)
  => /\ Result.kind = "returned"
     /\ Result.problem_type = "Math Problem"
     /\ Result.approach = "AI Analysis"
     /\ Len(Result.steps) = 1
     /\ Result.steps[1].calculation =
          IF backendResponse.has /\ backendResponse.chatgpt_response # <<>>
          THEN [kind |-> "string", text |-> backendResponse.chatgpt_response]
          ELSE StrItem(<<"Unable to process the response">>)

C17_Witness ==
  /\ Called
  /\ backendResponse.chatgpt_response = Str(<<"?", "?", "?">>)
  /\ Recovered = JNull
  /\ Result.steps = <<Step("Final Answer", 0, StrItem(<<"?", "?", "?">>), "Complete")>>

\* --------------------------------------------------------------- C18 -----
\* C18: for a recovered solution list of n >= 1 elements the result has n
\* steps in the same order, step i < n described "Step i" with an empty
\* result and step n described "Final Answer" with the completion marker; a
\* solution that is a single string gives exactly one step, the final one.
C18_StepsFollowTheList ==
  (Called /\ truthyJson(Recovered))
  => LET sol == Recovered.sol
         n == Len(sol.items)
     IN /\ (sol.kind = "list" /\ n >= 1)
           => /\ Result.kind = "returned"
              /\ Len(Result.steps) = n
              /\ \A i \in 1..n :
                   /\ Result.steps[i].calculation = sol.items[i]
                   /\ i < n => /\ Result.steps[i].description = "Step"
                               /\ Result.steps[i].n = i
                               /\ Result.steps[i].result = ""
                   /\ i = n => /\ Result.steps[i].description = "Final Answer"
                               /\ Result.steps[i].result = "Complete"
        /\ (sol.kind = "string" /\ sol.items[1].text # <<>>)
           => /\ Result.kind = "returned"
              /\ Len(Result.steps) = 1
              /\ Result.steps[1].calculation = sol.items[1]
              /\ Result.steps[1].description = "Final Answer"

\* ------------------------------------- responses with step texts ---------
MaxStep == 4
MaxNumeral == 5
StepChars == {"x", "y", "=", "1", "/"}
NumeralChars == {"-", "+", "1", "2", ".", "/"}
AxisPrefixes == {<<"x", "=">>, <<"x", " ", "=", " ">>, <<"y", "=">>}
FinalStepTexts ==
  {Str(t) : t \in Texts(StepChars, MaxStep)}
  \cup {Str(p \o t) : p \in AxisPrefixes, t \in Texts(NumeralChars, MaxNumeral)}
EarlierStep == StrItem(<<"x", "=", "1", " ", "y", "=", "2">>)
\* the response whose JSON is an object with the solution list `items`
ListResponse(items) ==
  BackendResponse(TRUE, <<O(Json("object", "Algebra", "Isolate x", Sol("list", items)))>>)

InitNumeric ==
  /\ TransportIdle
  /\ messages = <<>>
  /\ now = 0
  /\ ScreenIdle
  /\ RendererIdle
  /\ \E t \in FinalStepTexts, earlier \in BOOLEAN :
       backendResponse =
         ListResponse((IF earlier THEN <<EarlierStep>> ELSE <<>>)
                      \o <<[kind |-> "string", text |-> t]>>)
  /\ gptResponse = <<>>
  /\ mappedResult = <<>>
  /\ SolveIdle
  /\ UtilityIdle

NextNumeric == ParseBackend
SpecNumeric == InitNumeric /\ [][NextNumeric]_vars

\* --------------------------------------------------------------- C19 -----
\* A signed decimal that starts at place k: an optional sign, then digits,
\* or digits (maybe none), a point and digits.  SignedDecimalEnd is the
\* place after it, 0 when there is none.
SignedDecimalEnd(s, k) ==
  LET a == IF k <= Len(s) /\ isSign(s[k]) THEN k + 1 ELSE k
      b == DigitsEnd(s, a)
      point == b + 1 <= Len(s) /\ isChar(s[b], ".") /\ isDigit(s[b + 1])
  IN IF point THEN DigitsEnd(s, b + 1) ELSE IF b > a THEN b ELSE 0
\* the value of a signed decimal
DecimalValue(t) ==
  LET neg == isChar(t[1], "-")
      digits == SelectSeq(t, isDigit)
      p == FirstFrom(1, {at \in DOMAIN t : isChar(t[at], ".")})
      places == IF p = 0 THEN 0 ELSE Len(t) - p
  IN Number((IF neg THEN -1 ELSE 1) * DigitsValue(digits), Pow10(places))
\* the values the claim allows for the numeral at place k: the decimal, and
\* when  /b  follows it, the decimal divided by b
ValuesAt(s, k) ==
  LET e == SignedDecimalEnd(s, k)
      a == DecimalValue(SubSeq(s, k, e - 1))
      f == DigitsEnd(s, e + 1)
      fraction == e + 1 <= Len(s) /\ isChar(s[e], "/") /\ isDigit(s[e + 1])
  IN IF fraction
     THEN {a, Number(a.n, a.d * DigitsValue(SubSeq(s, e + 1, f - 1)))}
     ELSE {a}
\* the places of the numerals that follow  v =  in s
NumeralsAfter(s, v) ==
  {k \in 1..Len(s) :
     /\ SignedDecimalEnd(s, k) # 0
     /\ \E i \in 1..(k - 2), e \in 2..(k - 1) :
          /\ i < e /\ isChar(s[i], v) /\ isChar(s[e], "=")
          /\ \A j \in ((i + 1)..(e - 1)) \cup ((e + 1)..(k - 1)) : isWs(s[j])}
FinalStepText ==
  LET items == backendResponse.chatgpt_response[1].v.sol.items
  IN items[Len(items)].text
AxisAsClaimed(v, value) ==
  IF NumeralsAfter(FinalStepText, v) = {} THEN value = Null
  ELSE \E k \in NumeralsAfter(FinalStepText, v) : value \in ValuesAt(FinalStepText, k)

\* C19: x (and y) of a returned structured solution is a number exactly when
\* the text of the final step contains  x =  (y =) followed by a signed
\* decimal or an a/b fraction, and then it is that value, a/b being a divided
\* by b; otherwise it is null.  Earlier steps are not consulted.
C19_NumericSolution ==
  (Called /\ Result.kind = "returned")
  => /\ AxisAsClaimed("x", Result.solution.x)
     /\ AxisAsClaimed("y", Result.solution.y)

\* ================================== the non-streaming solve calls =========
\* POST /solve through fetchWithTimeout: the network fails, the request is
\* aborted after the timeout, or the server answers with a status and a body
\* (JSON or not; the detail field of an error body may be missing).
SolveStatuses == {"completed", "processing", "failed", "undefined"}
SolveTexts == {<<>>, Str(<<"?", "?", "?">>)} \cup {<<O(v)>> : v \in JsonObjects}
SolveBodies ==
  {[BackendResponse(h, t) EXCEPT !.status = st] :
     h \in BOOLEAN, t \in SolveTexts, st \in SolveStatuses}
SolveResponses ==
  [net : {"answered"}, status : {200}, bodyIsJson : {TRUE}, detail : {""},
   body : {b \in SolveBodies : b.has \/ b.chatgpt_response = <<>>}]
  \cup [net : {"answered"}, status : {200}, bodyIsJson : {FALSE}, detail : {""},
        body : {NoSolveResponse.body}]
  \cup [net : {"answered"}, status : {500}, bodyIsJson : BOOLEAN,
        detail : {"", "Invalid image"}, body : {NoSolveResponse.body}]
  \cup [net : {"failed", "timedout"}, status : {0}, bodyIsJson : {FALSE}, detail : {""},
        body : {NoSolveResponse.body}]

Failed(message) == [kind |-> "threw", message |-> message, result |-> Threw]
Solved(result) == [kind |-> "returned", message |-> <<>>, result |-> result]

\* the operation handed to callServer (callServer rethrows what it throws)
SolveOperation(r) ==
  IF r.net = "failed" THEN Failed(<<"Network request failed">>)
  ELSE IF r.net = "timedout"
  THEN Failed(<<"Request timed out after ", "95", " seconds">>)
  ELSE IF IsOk(r.status)
  THEN IF ~r.bodyIsJson THEN Failed(<<"JSON Parse error">>)
       ELSE IF ~r.body.has \/ r.body.chatgpt_response = <<>>
       THEN Failed(<<"Backend returned incomplete response">>)
       ELSE IF r.body.status # "completed"
       THEN Failed(<<"Backend processing not completed: ", r.body.status>>)
       ELSE LET result ==
                  parseBackendResponse(
                    r.body,
                    extractJsonFromGptResponse(r.body.has, r.body.chatgpt_response))
            IN IF result.kind = "threw"
               THEN Failed(<<"finalStep.match is not a function">>)
               ELSE Solved(result)
  ELSE IF r.bodyIsJson /\ r.detail # "" THEN Failed(<<r.detail>>)
  ELSE Failed(<<"API Error: ", StatusText(r.status)>>)

InitSolve ==
  /\ TransportIdle
  /\ messages = <<>>
  /\ now = 0
  /\ ScreenIdle
  /\ RendererIdle
  /\ ExtractorIdle
  /\ solveResponse \in SolveResponses
  /\ solveOutcome = <<>>
  /\ UtilityIdle

solveMathFromImage ==
  /\ solveOutcome = <<>>
  /\ solveOutcome' = <<[api |-> "image", outcome |-> SolveOperation(solveResponse)]>>
  /\ UNCHANGED <<solveResponse, outsideSolve>>

solveMathFromFile ==
  /\ solveOutcome = <<>>
  /\ solveOutcome' = <<[api |-> "file", outcome |-> SolveOperation(solveResponse)]>>
  /\ UNCHANGED <<solveResponse, outsideSolve>>

NextSolve == solveMathFromImage \/ solveMathFromFile
SpecSolve == InitSolve /\ [][NextSolve]_vars

\* --------------------------------------------------------------- C20 -----
\* C20: a 2xx answer of POST /solve whose status field is not "completed"
\* makes solveMathFromImage and solveMathFromFile fail with an error whose
\* message names the received status; no structured solution is returned.
C20_NotCompletedIsAnError ==
  (/\ solveOutcome # <<>>
   /\ solveResponse.net = "answered" /\ IsOk(solveResponse.status)
   /\ solveResponse.bodyIsJson
   /\ solveResponse.body.status # "completed")
  => /\ solveOutcome[1].outcome.kind = "threw"
     /\ \E i \in 1..Len(solveOutcome[1].outcome.message) :
          solveOutcome[1].outcome.message[i] = solveResponse.body.status

\* ============================== one public call, one or several attempts ==
\* Two copies of MathSolverApiService are in the repository: the one of
\* services/mathSolverApi.ts runs an operation through callServer, the other
\* one through tryMultipleUrls. An operation that meets a transport error
\* throws it; here it is "Network request failed" whenever no server answers
\* at the URL.
Lan == "http://192.168.178.31:8000"
Localhost == "http://localhost:8000"
Emulator == "http://10.0.2.2:8000"
Loopback == "http://127.0.0.1:8000"
Metro == "http://debuggerHost:8000"
FALLBACK_URLS == <<Lan, Localhost, Emulator, Loopback>>
\* getLocalBackendUrl(): localhost, the host of the bundler, or the emulator's
getLocalBackendUrl == {Localhost, Metro, Emulator}
Urls == {FALLBACK_URLS[i] : i \in DOMAIN FALLBACK_URLS} \cup getLocalBackendUrl
TransportError == <<"Network request failed">>

Attempt(url) == [url |-> url, ok |-> url \in reachable]
CallReturned == [kind |-> "returned", message |-> <<>>]
CallThrew(message) == [kind |-> "threw", message |-> message]

\* the for loop of tryMultipleUrls: the attempts up to the first that works
RECURSIVE TryInOrder(_)
TryInOrder(urls) ==
  IF urls = <<>> THEN <<>>
  ELSE IF Attempt(Head(urls)).ok THEN <<Attempt(Head(urls))>>
  ELSE <<Attempt(Head(urls))>> \o TryInOrder(Tail(urls))

InitCall ==
  /\ PipelineIdle
  /\ \/ revision = "services/mathSolverApi.ts" /\ baseUrl = Lan
     \/ revision = "part_003" /\ baseUrl \in getLocalBackendUrl
  /\ workingUrl = NoUrl
  /\ reachable \in SUBSET Urls
  /\ attempts = <<>>
  /\ callResult = <<>>
  /\ AuthIdle
  /\ WebViewIdle
  /\ HistoryIdle

\* callServer(operation): one attempt at baseUrl, its error rethrown
callServer ==
  /\ revision = "services/mathSolverApi.ts"
  /\ attempts' = <<Attempt(baseUrl)>>
  /\ callResult' = <<IF Attempt(baseUrl).ok THEN CallReturned ELSE CallThrew(TransportError)>>
  /\ UNCHANGED <<revision, baseUrl, workingUrl, reachable, outsideCall>>

\* tryMultipleUrls(operation): the cached URL first, then baseUrl and the
\* fallback URLs in order until one works
tryMultipleUrls ==
  /\ revision = "part_003"
  /\ LET cached == IF workingUrl # NoUrl THEN <<Attempt(workingUrl)>> ELSE <<>>
         cacheHit == cached # <<>> /\ cached[1].ok
         loop == IF cacheHit THEN <<>> ELSE TryInOrder(<<baseUrl>> \o FALLBACK_URLS)
         found == loop # <<>> /\ loop[Len(loop)].ok
     IN /\ attempts' = cached \o loop
        /\ workingUrl' = IF cacheHit THEN workingUrl
                         ELSE IF found THEN loop[Len(loop)].url ELSE NoUrl
        /\ baseUrl' = IF found THEN loop[Len(loop)].url ELSE baseUrl
        /\ callResult' =
             <<IF cacheHit \/ found THEN CallReturned
               ELSE CallThrew(<<"All backend URLs failed. Last error: ">> \o TransportError)>>
  /\ UNCHANGED <<revision, reachable, outsideCall>>

\* servers come and go between two calls
NetworkChanges ==
  /\ \E r \in SUBSET Urls : r # reachable /\ reachable' = r
  /\ UNCHANGED <<revision, baseUrl, workingUrl, attempts, callResult, outsideCall>>

NextCall == callServer \/ tryMultipleUrls \/ NetworkChanges
SpecCall == InitCall /\ [][NextCall]_vars

\* --------------------------------------------------------------- C21 -----
\* C21: one invocation of a public API call makes at most one attempt, and
\* when that attempt met a transport error the caller receives that error.
C21_OneAttemptPerCall ==
  callResult # <<>> =>
    /\ Len(attempts) <= 1
    /\ \A i \in 1..Len(attempts) :
         ~attempts[i].ok => callResult[1] = CallThrew(TransportError)

\* ======================================== the token and the requests =======
\* The constructor starts initializeFromStorage without awaiting it: its
\* getItem is pending after construction, then has read the item (or has
\* failed), then its continuation runs. Callers may use the service at any
\* of these points. Storage operations may fail.
Tokens == {"tokenA", "tokenB"}

\* the public calls that send a request, and whether the request is built
\* with getAuthHeaders() (directly, or inside fetchWithTimeout)
AuthorizedApis ==
  {"checkHealth", "register", "verifyToken", "solveMathFromImage", "solveMathFromFile",
   "solveMathFromImageStream", "sendChatMessage", "sendChatMessageStream",
   "sendImageMessage"}
BareApis == {"testStreamingEndpoint"}

\* getAuthHeaders(): the value of the Authorization header after "Bearer ",
\* NoToken when the header is not set
getAuthHeaders == IF accessToken # NoToken THEN accessToken ELSE NoToken
Request(api) ==
  [api |-> api,
   authorization |-> IF api \in BareApis THEN NoToken ELSE getAuthHeaders,
   held |-> accessToken]

InitAuth ==
  /\ PipelineIdle
  /\ CallIdle
  /\ accessToken = NoToken
  /\ isInitialized = FALSE
  /\ storedToken \in {NoToken} \cup Tokens
  /\ initRead = [state |-> "pending", value |-> NoToken]
  /\ lastCall = <<>>
  /\ authChecked = <<>>
  /\ sent = <<>>
  /\ WebViewIdle
  /\ HistoryIdle

\* AsyncStorage.getItem('access_token') of initializeFromStorage is served
StorageAnswers ==
  /\ initRead.state = "pending"
  /\ \E ok \in BOOLEAN :
       initRead' = IF ok THEN [state |-> "read", value |-> storedToken]
                   ELSE [state |-> "failed", value |-> NoToken]
  /\ UNCHANGED <<accessToken, isInitialized, storedToken, lastCall, authChecked, sent,
                 outsideAuth>>

\* initializeFromStorage after its await: take the token read, if any
initializeFromStorage ==
  /\ initRead.state \in {"read", "failed"}
  /\ accessToken' = IF initRead.value # NoToken THEN initRead.value ELSE accessToken
  /\ isInitialized' = TRUE
  /\ initRead' = [state |-> "done", value |-> NoToken]
  /\ UNCHANGED <<storedToken, lastCall, authChecked, sent, outsideAuth>>

\* setAuthToken(token): memory first, then storeToken or removeStoredToken
SetToken(token, stored) ==
  /\ accessToken' = token
  /\ storedToken' = IF stored THEN token ELSE storedToken
  /\ lastCall' = <<[op |-> "setAuthToken", token |-> token]>>
  /\ authChecked' = <<>>

setAuthToken ==
  /\ \E token \in Tokens \cup {NoToken}, stored \in BOOLEAN : SetToken(token, stored)
  /\ sent' = <<>>
  /\ UNCHANGED <<isInitialized, initRead, outsideAuth>>

\* login(credentials): POST /auth/login through fetchWithTimeout; a 2xx
\* answer carries the token that setAuthToken then takes
login ==
  /\ \E ok \in BOOLEAN :
       IF ok
       THEN \E token \in Tokens, stored \in BOOLEAN : SetToken(token, stored)
       ELSE UNCHANGED <<accessToken, storedToken, lastCall, authChecked>>
  /\ sent' = <<[api |-> "login", authorization |-> getAuthHeaders, held |-> accessToken]>>
  /\ UNCHANGED <<isInitialized, initRead, outsideAuth>>

\* logout(): memory first, then removeStoredToken, whose failure is swallowed
logout ==
  /\ accessToken' = NoToken
  /\ \E removed \in BOOLEAN : storedToken' = IF removed THEN NoToken ELSE storedToken
  /\ lastCall' = <<[op |-> "logout", token |-> NoToken]>>
  /\ authChecked' = <<>>
  /\ sent' = <<>>
  /\ UNCHANGED <<isInitialized, initRead, outsideAuth>>

forceReauth ==
  /\ accessToken' = NoToken
  /\ \E removed \in BOOLEAN : storedToken' = IF removed THEN NoToken ELSE storedToken
  /\ lastCall' = <<[op |-> "forceReauth", token |-> NoToken]>>
  /\ authChecked' = <<>>
  /\ sent' = <<>>
  /\ UNCHANGED <<isInitialized, initRead, outsideAuth>>

\* isAuthenticated(): after waitForInitialization (which gives up after 50
\* polls), a missing token is looked up in storage once more
isAuthenticated ==
  /\ \E ok \in BOOLEAN :
       accessToken' = IF accessToken = NoToken /\ ok THEN storedToken ELSE accessToken
  /\ authChecked' = <<accessToken' # NoToken>>
  /\ UNCHANGED <<isInitialized, storedToken, initRead, lastCall, sent, outsideAuth>>

\* any other public call builds its request
SendRequest ==
  /\ \E api \in AuthorizedApis \cup BareApis : sent' = <<Request(api)>>
  /\ UNCHANGED <<accessToken, isInitialized, storedToken, initRead, lastCall, authChecked,
                 outsideAuth>>

NextAuth ==
  \/ StorageAnswers
  \/ initializeFromStorage
  \/ setAuthToken
  \/ login
  \/ logout
  \/ forceReauth
  \/ isAuthenticated
  \/ SendRequest
SpecAuth == InitAuth /\ [][NextAuth]_vars

\* --------------------------------------------------------------- C22 -----
\* C22: every request the service sends carries Authorization: Bearer <token>
\* exactly when a token is held in memory when the request is built, and no
\* Authorization header when none is held.
C22_BearerIffTokenHeld ==
  sent # <<>> => sent[1].authorization = sent[1].held

\* --------------------------------------------------------------- C28 -----
\* C28: once setAuthToken, logout or forceReauth has run, the completion of
\* the constructor's storage read does not change the in-memory token: it
\* keeps the value that call gave it.
C28_InitReadDoesNotOverwrite ==
  [][(lastCall # <<>> /\ initRead.state # "done" /\ initRead'.state = "done")
       => accessToken' = lastCall[1].token]_vars

\* --------------------------------------------------------------- C29 -----
\* C29: after logout() has completed and until the next login,
\* isAuthenticated() returns false and no request carries an Authorization
\* header, also when removing the stored token failed.
C29_LoggedOutStaysLoggedOut ==
  (lastCall # <<>> /\ lastCall[1].op = "logout") =>
    /\ authChecked # <<>> => authChecked[1] = FALSE
    /\ sent # <<>> => sent[1].authorization = NoToken

\* ===================================== LatexWebView, the height reports ====
\* Each math segment is a LatexWebView with its own webViewHeight state. The
\* page posts messages; onMessage parses the text as JSON and, when the value
\* has a truthy height, sets the state to Math.max(60, data.height).
MaxSegments == 2
InitialHeight == 80
MinHeight == 60
Heights == {0, 30, 60, 100, 150, 200}

\* event.nativeEvent.data: text that is no JSON, the JSON text null, an
\* object without a height, an object with a numeric height
HeightMessages ==
  [kind : {"malformed", "null", "object"}, has : {FALSE}, height : {0}]
  \cup [kind : {"object"}, has : {TRUE}, height : Heights]

MathMin(a, b) == IF a <= b THEN a ELSE b
MathMax(a, b) == IF a >= b THEN a ELSE b

\* JSON.parse(event.nativeEvent.data) raises for text that is no JSON, and
\* data.height raises for null: both end in the empty catch
Ignored(m) == m.kind \in {"malformed", "null"} \/ ~m.has \/ m.height = 0

InitWebView ==
  /\ PipelineIdle
  /\ CallIdle
  /\ AuthIdle
  /\ webViewHeight = [seg \in 1..MaxSegments |-> InitialHeight]
  /\ lastReport = <<>>
  /\ HistoryIdle

\* the onMessage handler of the segment's WebView
onMessage ==
  /\ \E seg \in 1..MaxSegments, m \in HeightMessages :
       /\ webViewHeight' =
            IF Ignored(m) THEN webViewHeight
            ELSE [webViewHeight EXCEPT ![seg] = MathMax(MinHeight, m.height)]
       /\ lastReport' = <<[seg |-> seg, message |-> m]>>
  /\ UNCHANGED outsideWebView

NextWebView == onMessage
SpecWebView == InitWebView /\ [][NextWebView]_vars

\* the message handled by this step reports a height / a height other than 0
ReportsHeight == lastReport'[1].message.kind = "object" /\ lastReport'[1].message.has
ReportsNonZero == ReportsHeight /\ lastReport'[1].message.height # 0
OthersKeepHeight ==
  \A seg \in DOMAIN webViewHeight :
    seg # lastReport'[1].seg => webViewHeight'[seg] = webViewHeight[seg]
Clamped ==
  IF lastReport'[1].message.height < MinHeight THEN MinHeight
  ELSE lastReport'[1].message.height

TerminalCalls == {i \in 1..Len(log) : IsTerminal(log[i])}
ErrorCalls == {i \in 1..Len(log) : log[i].cb = "onError"}

\* --------------------------------------------------------------- C24 -----
\* C24: for a streaming request at most one terminal callback (onComplete or
\* onError) is invoked in total, and a request that has failed with a network
\* error or a non-2xx status has invoked onError exactly once.
C24_OneTerminalCallback ==
  /\ Cardinality(TerminalCalls) <= 1
  /\ (Settled /\ ~IsOk(resp.status)) => Cardinality(ErrorCalls) = 1

\* ============================ the streaming message and its chunks ========
ChunksSoFar == Concat(Args(log, "onChunk"))

\* --------------------------------------------------------------- C25 -----
\* C25: while the request's assistant message is streaming and a chunk has
\* been received, its content is the concatenation, in arrival order, of the
\* chunks received so far.
C25_ContentIsChunksSoFar ==
  \A i \in 1..Len(TypingMessages) :
    (TypingMessages[i].isStreaming /\ Args(log, "onChunk") # <<>>)
      => TypingMessages[i].content = ChunksSoFar

\* ================== the streaming parser while the text grows, and the =====
\* ================== streaming parser against the final one ================
Prefixes(text) == {SubSeq(text, 1, k) : k \in 0..Len(text)}
\* the math segments with the offsets at which they start
MathAt(ps) ==
  {[offset |-> Len(Concat(SubSeq(Contents(ps), 1, k - 1))), content |-> ps[k].content] :
     k \in {j \in 1..Len(ps) : ps[j].type = "math"}}

\* --------------------------------------------------------------- C26 -----
\* C26: in streaming mode every math segment produced for a prefix of the
\* text is produced unchanged and at the same offset for the text itself.
C26_MathSegmentsAreStable ==
  rendered = "streaming" =>
    \A t \in Prefixes(contentProp) : MathAt(parseContentStreaming(t)) \subseteq MathAt(parts)

\* a block was closed, and the text went on with the start of another one
C26_Witness ==
  /\ rendered = "streaming"
  /\ contentProp = <<"$", "$", "x", "$", "$", "$">>
  /\ MathAt(parts) = {[offset |-> 0, content |-> <<"$", "$", "x", "$", "$">>]}
  /\ MathAt(parseContentStreaming(SubSeq(contentProp, 1, 5))) = MathAt(parts)

\* adjacent text segments merged, empty text segments dropped
RECURSIVE Merged(_)
Merged(ps) ==
  IF ps = <<>> THEN <<>>
  ELSE IF ps[1].type = "text" /\ ps[1].content = <<>> THEN Merged(Tail(ps))
  ELSE IF Len(ps) >= 2 /\ ps[1].type = "text" /\ ps[2].type = "text"
  THEN Merged(<<Part("text", ps[1].content \o ps[2].content)>> \o SubSeq(ps, 3, Len(ps)))
  ELSE <<ps[1]>> \o Merged(Tail(ps))
\* the scan of the streaming parser met no open delimiter without a close:
\* no text segment holds an open delimiter
EveryOpenIsClosed(ps) ==
  \A k \in 1..Len(ps) : ps[k].type = "text" => FirstOpen(ps[k].content) = -1

\* --------------------------------------------------------------- C27 -----
\* C27: for a text in which each open delimiter met by the scan has its
\* close delimiter, the streaming parser and the final parser return the same
\* math segments, and the same text once adjacent text segments are merged
\* and empty ones dropped.
C27_StreamingEqualsFinal ==
  (rendered = "streaming" /\ EveryOpenIsClosed(parts))
    => Merged(parts) = Merged(parseContent(contentProp))

\* a block at the start: the final parser returns an empty text before it
C27_Witness ==
  /\ rendered = "streaming"
  /\ contentProp = <<"$", "$", "$", "$", "x">>
  /\ EveryOpenIsClosed(parts)
  /\ Len(parts) = 2 /\ Len(parseContent(contentProp)) = 3

\* ================================================ ChatHistoryService ======
\* The messages of a chat are numbered; the i-th one has the id, type and
\* content below. A timestamp is a Date: a whole number of milliseconds, or
\* an invalid Date, for which toISOString raises a RangeError.
MAX_MESSAGES == 100
MaxHistory == 102
Date(ms) == [kind |-> "date", ms |-> ms]
InvalidDate == [kind |-> "invalid", ms |-> 0]
ChatMessage(i, timestamp) ==
  [id |-> i, type |-> IF i % 2 = 1 THEN "user" ELSE "assistant",
   content |-> <<"message", i>>, timestamp |-> timestamp, isStreaming |-> FALSE]
\* a chat of n messages sent 1.5 s apart; the last may carry an invalid Date
ChatOf(n, valid) ==
  [i \in 1..n |-> ChatMessage(i, IF i = n /\ ~valid THEN InvalidDate ELSE Date(1500 * i + 7))]

\* messages.slice(-MAX_MESSAGES)
sliceLast(msgs, k) == IF Len(msgs) <= k THEN msgs ELSE SubSeq(msgs, Len(msgs) - k + 1, Len(msgs))
\* Date.prototype.toISOString: the seconds and the milliseconds as text
toISOString(d) == [seconds |-> d.ms \div 1000, millis |-> d.ms % 1000]
\* new Date(text) with the milliseconds dropped
newDateSeconds(iso) == Date(iso.seconds * 1000)
\* new Date(text) of an ISO text
newDate(iso) == Date(iso.seconds * 1000 + iso.millis)
serialize(msgs) == [i \in 1..Len(msgs) |-> [msgs[i] EXCEPT !.timestamp = toISOString(@)]]
deserialize(items) == [i \in 1..Len(items) |-> [items[i] EXCEPT !.timestamp = newDate(@)]]
Serializable(msgs) == \A i \in 1..Len(msgs) : msgs[i].timestamp.kind = "date"

InitHistory ==
  /\ PipelineIdle
  /\ CallIdle
  /\ AuthIdle
  /\ WebViewIdle
  /\ chatStorage = NoItem
  /\ lastSaved = <<>>
  /\ loaded = <<>>

\* saveChatHistory(messages): a RangeError of toISOString or a rejected
\* setItem is caught and logged, and nothing is written
saveChatHistory ==
  /\ \E n \in 0..MaxHistory, valid \in BOOLEAN, written \in BOOLEAN :
       LET msgs == ChatOf(n, valid)
           limitedMessages == sliceLast(msgs, MAX_MESSAGES)
       IN IF Serializable(limitedMessages) /\ written
          THEN /\ chatStorage' = [has |-> TRUE, value |-> serialize(limitedMessages)]
               /\ lastSaved' = <<msgs>>
          ELSE /\ chatStorage' = chatStorage
               /\ lastSaved' = <<>>
  /\ loaded' = <<>>
  /\ UNCHANGED outsideHistory

\* loadChatHistory(): [] when there is no item or when getItem is rejected
loadChatHistory ==
  /\ \E read \in BOOLEAN :
       loaded' = <<[read |-> read,
                    messages |-> IF read /\ chatStorage.has
                                 THEN deserialize(chatStorage.value) ELSE <<>>]>>
  /\ UNCHANGED <<chatStorage, lastSaved, outsideHistory>>

\* clearChatHistory(): a rejected removeItem is caught and logged
clearChatHistory ==
  /\ \E removed \in BOOLEAN : chatStorage' = IF removed THEN NoItem ELSE chatStorage
  /\ lastSaved' = <<>>
  /\ loaded' = <<>>
  /\ UNCHANGED outsideHistory

NextHistory == saveChatHistory \/ loadChatHistory \/ clearChatHistory
SpecHistory == InitHistory /\ [][NextHistory]_vars

\* the last min(k, n) of a list, written without slice
LastOf(msgs, k) ==
  LET m == IF Len(msgs) < k THEN Len(msgs) ELSE k
  IN [i \in 1..m |-> msgs[Len(msgs) - m + i]]

RoundTrip(saved, got) ==
  LET expected == LastOf(saved, 100)
  IN /\ Len(got) = Len(expected)
     /\ \A i \in 1..Len(got) :
          /\ got[i].id = expected[i].id
          /\ got[i].type = expected[i].type
          /\ got[i].content = expected[i].content
          /\ got[i].timestamp = expected[i].timestamp

\* --------------------------------------------------------------- C30 -----
\* C30 (as stated): loadChatHistory called after a successful
\* saveChatHistory(messages) returns the last min(100, n) messages of the
\* saved list, in the same order and with the same id, type, content and
\* timestamp.
C30_LoadReturnsLastSaved ==
  (lastSaved # <<>> /\ loaded # <<>>) => RoundTrip(lastSaved[1], loaded[1].messages)

\* C30 (amended): the same, for a loadChatHistory whose read of the stored
\* item succeeds; when the read is rejected the result is the empty list.
C30_LoadReturnsLastSavedWhenRead ==
  (lastSaved # <<>> /\ loaded # <<>>) =>
    IF loaded[1].read THEN RoundTrip(lastSaved[1], loaded[1].messages)
    ELSE loaded[1].messages = <<>>

\* 101 messages were saved: the first one is dropped, 100 are returned
C30_Witness ==
  /\ lastSaved # <<>> /\ Len(lastSaved[1]) = 101
  /\ loaded # <<>> /\ loaded[1].read
  /\ Len(loaded[1].messages) = 100
  /\ loaded[1].messages[1].id = 2
  /\ loaded[1].messages[100].timestamp = Date(151507)

====
